---------------------------- MODULE Spec2Model ----------------------------
(***************************************************************************)
(* A model of the EDA tool server of src/src/index.ts: the Process Runner  *)
(* (execAsyncWithTimeout, spawnAsyncWithTimeout), the project registry of  *)
(* EDAServer, its six drivers and the CallToolRequestSchema handler.       *)
(*                                                                         *)
(* Texts are sequences of tokens (strings): a message "names" a value when *)
(* the value is one of its tokens.                                         *)
(***************************************************************************)
EXTENDS Integers, Sequences, FiniteSets, TLC

VARIABLES
    run,        \* the one Process Runner invocation being followed
    projects,   \* EDAServer.projects: id -> [dir, type]
    fs,         \* the directories that exist on disk, each with its content
    last,       \* the last tool call: request, response and ordered effects
    before,     \* the report read that came right before the last call, if it was one
    calls,      \* history: the number of calls of the creating tools so far
    issued,     \* history: for each id a success response carried, the record its
                \* invocation registered, and whether one or more invocations returned it
    tasks       \* the driver invocations in flight, each at its suspension point

vars == <<run, projects, fs, last, before, calls, issued, tasks>>

Range(s) == {s[i] : i \in DOMAIN s}

(***************************************************************************)
(* PROCESS RUNNER                                                          *)
(***************************************************************************)

\* The kinds of runner: execAsyncWithTimeout and spawnAsyncWithTimeout.
RunnerKinds == {"exec", "spawn"}

\* Command texts given to a runner.
Cmds == {"run_openlane.sh", "open -a KLayout"}

\* The default budget of both runners, as it is printed in the message.
TimeoutMsText == "600000"

\* The text a process wrote to its standard error.
StderrText == "stderr-text"

\* Exit statuses a process can report.
ExitCodes == {0, 1, 2}

\* `Command timed out after ${timeoutMs}ms: ${command}`
TimeoutMessage(ms, cmd) == <<"Command timed out after ", ms, "ms: ", cmd>>

\* exec's own error for a non-zero exit or a signal: `Command failed: ${cmd}\n${stderr}`
ExecFailedMessage(cmd) == <<"Command failed: ", cmd, "\n", StderrText>>

\* exec's error when a stream outgrows maxBuffer.
MaxBufferMessage == <<"stdout maxBuffer length exceeded">>

\* The error of a failed launch (the 'error' event of the child).
LaunchMessage == <<"spawn ", "/bin/sh", " ENOENT">>

\* `Command failed with exit code ${code}: ${command} ${args}\n${stderr}`
SpawnFailedMessage(cmd, code) ==
    <<"Command failed with exit code ", ToString(code), ": ", cmd, "\n", StderrText>>

Pending == [state |-> "pending", why |-> "none", msg |-> <<>>]
Resolved == [state |-> "resolved", why |-> "ok", msg |-> <<>>]
Rejected(why, msg) == [state |-> "rejected", why |-> why, msg |-> msg]

\* A plausible slip: the last resolve/reject wins.
SettleLastWins(p, outcome) == outcome

\* resolve/reject of the Promise: only the first call settles it.
Settle(p, outcome) == IF p.state = "pending" THEN outcome ELSE p

\* A plausible slip: the timer is left armed.
ClearNothing(t) == t

\* clearTimeout: disarms an armed timer, does nothing to one that fired.
ClearTimeout(t) == IF t = "armed" THEN "cleared" ELSE t

\* maxBuffer of execAsyncWithTimeout (10 * 1024 * 1024), and the default of
\* exec, which a command run with execAsync alone gets.
WrappedMaxBuffer == 10485760
DefaultMaxBuffer == 1048576

\* The maxBuffer of an exec.
MaxBuffer(r) == IF r.wrapped THEN WrappedMaxBuffer ELSE DefaultMaxBuffer

\* The output of a command arrives in chunks of this length, and a command
\* writes no more than MaxOutput in all.
Chunk == WrappedMaxBuffer \div 2
MaxOutput == WrappedMaxBuffer + Chunk

IdleRun ==
    [phase |-> "idle", kind |-> "exec", wrapped |-> TRUE, cmd |-> "run_openlane.sh",
     timer |-> "none", inner |-> "none", promise |-> Pending,
     proc |-> "none", kids |-> FALSE, sig |-> "none", pipes |-> "open",
     code |-> -1, signal |-> "none", closed |-> FALSE, missing |-> FALSE,
     events |-> <<>>, ex |-> "none", exited |-> FALSE, handled |-> {},
     killCalls |-> 0, aliveAtReturn |-> FALSE, kidsAtReturn |-> FALSE, out |-> 0]

\* The call: the timer is armed, then the child is launched. A failed launch
\* is reported by the child's 'error' event, followed by its 'close'. A
\* command run with the promisified exec alone (execAsync) has no timer but
\* the one of options.timeout, if that is given.
RunStart(kind, wrapped, cmd, innerTimeout, launched, hasKids) ==
    /\ run.phase = "idle"
    /\ kind = "spawn" => wrapped
    /\ run' = [run EXCEPT
                 !.phase = "active", !.kind = kind, !.wrapped = wrapped, !.cmd = cmd,
                 !.timer = IF wrapped THEN "armed" ELSE "none",
                 !.inner = IF kind = "exec" /\ innerTimeout THEN "armed" ELSE "none",
                 !.proc = IF launched THEN "running" ELSE "none",
                 !.kids = launched /\ hasKids,
                 !.events = IF launched THEN <<>> ELSE <<"error", "close">>,
                 !.closed = ~launched]
    /\ UNCHANGED <<projects, fs, last, before, calls, issued, tasks>>

\* The operating system: the process ends by itself with an exit status.
OsExit(code) ==
    /\ run.proc = "running"
    /\ run' = [run EXCEPT !.proc = "dead", !.code = code, !.sig = "none"]
    /\ UNCHANGED <<projects, fs, last, before, calls, issued, tasks>>

\* exec runs its command as `/bin/sh -c command`: when the shell finds no
\* binary of that name, or may not execute it, the shell writes to its
\* standard error and ends with status 127 or 126. The launch of the shell
\* itself succeeded, so the child emits no 'error' event.
ShellCannotRun(code) ==
    /\ run.proc = "running"
    /\ run.kind = "exec"
    /\ ~run.kids
    /\ run' = [run EXCEPT !.proc = "dead", !.code = code, !.sig = "none", !.missing = TRUE]
    /\ UNCHANGED <<projects, fs, last, before, calls, issued, tasks>>

\* The operating system: a pending signal ends the process. SIGKILL cannot be
\* caught; SIGTERM can, and then the process goes on.
OsDeliver(caught) ==
    /\ run.proc = "running"
    /\ run.sig # "none"
    /\ IF caught /\ run.sig = "SIGTERM"
       THEN run' = [run EXCEPT !.sig = "none"]
       ELSE run' = [run EXCEPT !.proc = "dead", !.signal = run.sig, !.sig = "none"]
    /\ UNCHANGED <<projects, fs, last, before, calls, issued, tasks>>

\* The operating system: the processes the command started end. No signal of
\* the runner reaches them: it signals the one process it launched.
KidsExit ==
    /\ run.kids
    /\ run' = [run EXCEPT !.kids = FALSE]
    /\ UNCHANGED <<projects, fs, last, before, calls, issued, tasks>>

\* The child emits 'close' once it has ended and its output streams are
\* closed: no other process holds them, or exec destroyed them.
EmitClose ==
    /\ run.proc = "dead"
    /\ ~run.closed
    /\ ~run.kids \/ run.pipes = "destroyed"
    /\ run' = [run EXCEPT !.closed = TRUE, !.events = Append(run.events, "close")]
    /\ UNCHANGED <<projects, fs, last, before, calls, issued, tasks>>

\* ChildProcess.kill(signal): the signal is sent to a process that still runs.
\* SIGKILL replaces a pending SIGTERM.
SendSignal(r, s) ==
    IF r.proc = "running" /\ (r.sig = "none" \/ s = "SIGKILL")
    THEN [r EXCEPT !.sig = s]
    ELSE r

\* The callback of the runner's own timer: kill, then reject.
TimerFire ==
    /\ run.phase # "idle"
    /\ run.timer = "armed"
    /\ run' = [SendSignal(run, "SIGKILL") EXCEPT
                 !.timer = "fired",
                 !.killCalls = run.killCalls + 1,
                 !.promise = Settle(run.promise, Rejected("timeout", TimeoutMessage(TimeoutMsText, run.cmd)))]
    /\ UNCHANGED <<projects, fs, last, before, calls, issued, tasks>>

\* exec's kill(): destroys the streams and sends the default kill signal.
ExecKill(r) == [SendSignal(r, "SIGTERM") EXCEPT !.pipes = "destroyed"]

\* exec's own timer (options.timeout).
InnerTimerFire ==
    /\ run.phase # "idle"
    /\ run.inner = "armed"
    /\ run' = [ExecKill(run) EXCEPT !.inner = "fired"]
    /\ UNCHANGED <<projects, fs, last, before, calls, issued, tasks>>

\* A chunk of standard output is appended to the runner's buffer: by exec
\* while the stream stays within maxBuffer, by the 'data' listener of the
\* spawn runner always.
OutputData ==
    /\ run.phase = "active"
    /\ run.proc = "running" \/ (run.proc = "dead" /\ ~run.closed)
    /\ run.pipes = "open"
    /\ run.out + Chunk <= (IF run.kind = "exec" THEN MaxBuffer(run) ELSE MaxOutput)
    /\ run' = [run EXCEPT !.out = @ + Chunk]
    /\ UNCHANGED <<projects, fs, last, before, calls, issued, tasks>>

\* exec: a chunk of output makes a stream longer than maxBuffer.
MaxBufferExceeded ==
    /\ run.phase # "idle"
    /\ run.kind = "exec"
    /\ run.proc = "running" \/ (run.proc = "dead" /\ ~run.closed)
    /\ run.pipes = "open"
    /\ ~run.exited
    /\ run.out + Chunk > MaxBuffer(run)
    /\ run' = [ExecKill(run) EXCEPT !.ex = "maxbuffer", !.out = @ + Chunk]
    /\ UNCHANGED <<projects, fs, last, before, calls, issued, tasks>>

\* The outcome exec hands to its callback from exithandler.
ExecOutcome(r) ==
    IF r.ex = "maxbuffer" THEN Rejected("maxbuffer", MaxBufferMessage)
    ELSE IF r.ex = "launch" THEN Rejected("launch", LaunchMessage)
    ELSE IF r.code = 0 /\ r.signal = "none" THEN Resolved
    ELSE Rejected("exit", ExecFailedMessage(r.cmd))

\* The outcome of the 'close' listener of spawnAsyncWithTimeout.
SpawnCloseOutcome(r) ==
    IF r.code = 0 THEN Resolved
    ELSE Rejected("exit", SpawnFailedMessage(r.cmd, r.code))

\* One event of the child is handled. exec's exithandler runs its callback
\* once; the callback and both listeners of the spawn runner clear the
\* runner's timer before they settle the promise.
HandleEvent ==
    /\ run.events # <<>>
    /\ LET ev == Head(run.events)
           r0 == [run EXCEPT !.events = Tail(run.events),
                             !.handled = run.handled \cup {ev}]
       IN  IF run.kind = "exec"
           THEN LET r1 == IF ev = "error"
                          THEN [r0 EXCEPT !.ex = "launch", !.pipes = "destroyed"]
                          ELSE r0
                IN  IF r1.exited
                    THEN run' = r1
                    ELSE run' = [r1 EXCEPT
                                   !.exited = TRUE,
                                   !.inner = ClearTimeout(r1.inner),
                                   !.timer = ClearTimeout(r1.timer),
                                   !.promise = Settle(r1.promise, ExecOutcome(r1))]
           ELSE run' = [r0 EXCEPT
                          !.timer = ClearTimeout(r0.timer),
                          !.promise = Settle(r0.promise,
                                IF ev = "error" THEN Rejected("launch", LaunchMessage)
                                ELSE SpawnCloseOutcome(r0))]
    /\ UNCHANGED <<projects, fs, last, before, calls, issued, tasks>>

\* The awaiting driver resumes with the settled outcome.
RunReturn ==
    /\ run.phase = "active"
    /\ run.promise.state # "pending"
    /\ run' = [run EXCEPT !.phase = "returned",
                          !.aliveAtReturn = (run.proc = "running"),
                          !.kidsAtReturn = run.kids]
    /\ UNCHANGED <<projects, fs, last, before, calls, issued, tasks>>

RunnerNext ==
    \/ \E kind \in RunnerKinds, w \in BOOLEAN, cmd \in Cmds,
          it \in BOOLEAN, l \in BOOLEAN, k \in BOOLEAN :
          RunStart(kind, w, cmd, it, l, k)
    \/ \E code \in ExitCodes : OsExit(code)
    \/ \E code \in {126, 127} : ShellCannotRun(code)
    \/ \E caught \in BOOLEAN : OsDeliver(caught)
    \/ KidsExit
    \/ EmitClose
    \/ TimerFire
    \/ InnerTimerFire
    \/ OutputData
    \/ MaxBufferExceeded
    \/ HandleEvent
    \/ RunReturn

(***************************************************************************)
(* REQUESTS                                                                *)
(***************************************************************************)

\* The values Math.random().toString(36).substring(2, 15) can take.
Ids == {"a", "b"}

\* An argument that is present but is not a string.
NonString == "<not a string>"

\* getStringProperty: the value under key when it is there and is a string.
getStringProperty(obj, key, defaultValue) ==
    IF key \in DOMAIN obj /\ obj[key] # NonString THEN obj[key] ELSE defaultValue

MissingParameterMessage(key, toolName) ==
    <<"Missing required parameter '", key, "' for tool '", toolName, "'">>

\* A plausible slip: the value is returned without the check.
validateNothing(obj, key, toolName) ==
    [thrown |-> FALSE, value |-> getStringProperty(obj, key, ""), message |-> <<>>]

\* validateRequiredString: throws McpError(InvalidParams) for a missing, an
\* empty and a non-string value.
validateRequiredString(obj, key, toolName) ==
    LET value == getStringProperty(obj, key, "")
    IN  IF value = ""
        THEN [thrown |-> TRUE, value |-> "", message |-> MissingParameterMessage(key, toolName)]
        ELSE [thrown |-> FALSE, value |-> value, message |-> <<>>]

(***************************************************************************)
(* FILE SYSTEM                                                             *)
(*                                                                         *)
(* fs maps every project directory that exists to its content: the names   *)
(* of the files at its root, whether runs/ exists, and the content of each *)
(* entry of runs/. An optional value is a sequence of length 0 or 1; the   *)
(* name of an entry of runs/ is the sequence of its character codes.      *)
(***************************************************************************)

EmptyDir == [files |-> {}, runsDir |-> FALSE, runs |-> << >>]

\* A run directory with no report and no layout.
BareRun == [synth |-> <<>>, routing |-> <<>>, final |-> <<>>, gds |-> <<>>]

\* join(this.tempDir, `project_${id}`), join(this.tempDir, `sim_project_${id}`)
\* and join(this.openlaneDir, `${designName}_${id}`).
SynthDir(id) == <<"tmp", "project_", id>>
SimDir(id) == <<"tmp", "sim_project_", id>>
OpenlaneDir(designName, id) == <<"openlane", designName, id>>

(***************************************************************************)
(* A driver is a sequence of steps on a step state: the registry, the file *)
(* system, the ordered log of the effects so far, and the error thrown, if *)
(* one was. A step after a throw does nothing.                             *)
(***************************************************************************)

Begin == [projects |-> projects, fs |-> fs, log |-> <<>>, thrown |-> FALSE, err |-> <<>>]

Effect(st, kind, what, result) == [st EXCEPT !.log = Append(st.log, <<kind, what, result>>)]

Throw(st, message) == [st EXCEPT !.thrown = TRUE, !.err = message]

FsError(op) == <<"EACCES: permission denied, ", op>>

\* fs.mkdir(dir, { recursive: true }): creates the directory if it is missing.
Mkdir(st, dir, ok) ==
    IF st.thrown THEN st
    ELSE IF ok
    THEN Effect([st EXCEPT !.fs = IF dir \in DOMAIN st.fs THEN st.fs
                                  ELSE (dir :> EmptyDir) @@ st.fs],
                "fs", "mkdir", "ok")
    ELSE Throw(Effect(st, "fs", "mkdir", "fail"), FsError("mkdir"))

\* fs.writeFile(join(dir, name), ...): fails when the directory is missing.
WriteFile(st, dir, name, ok) ==
    IF st.thrown THEN st
    ELSE IF ok /\ dir \in DOMAIN st.fs
    THEN Effect([st EXCEPT !.fs[dir].files = @ \cup {name}], "fs", name, "ok")
    ELSE Throw(Effect(st, "fs", name, "fail"), FsError("open"))

\* this.projects.set(id, rec): Map.set adds the entry or replaces the one there.
RegistrySet(st, id, rec) ==
    IF st.thrown THEN st
    ELSE Effect([st EXCEPT !.projects = (id :> rec) @@ st.projects], "registry", "set", "ok")

\* The outcomes of a command run with the promisified exec: ended with status
\* 0, with another status, killed by exec's timeout, a stream above
\* maxBuffer, a launch that failed.
ExecKinds == {"ok", "exit", "timeout", "maxbuffer", "launch"}

\* The further outcome of execAsyncWithTimeout: its own timer fired.
RunnerKindsOfFailure == ExecKinds \cup {"outer"}

\* error.message of a failed command.
ExecError(kind, cmd, ms) ==
    CASE kind = "exit" -> ExecFailedMessage(cmd)
      [] kind = "timeout" -> ExecFailedMessage(cmd)
      [] kind = "maxbuffer" -> MaxBufferMessage
      [] kind = "launch" -> LaunchMessage
      [] kind = "outer" -> TimeoutMessage(ms, cmd)

\* await execAsync(cmd, ...) and await execAsyncWithTimeout(cmd, ..., ms).
Exec(st, cmd, kind, ms) ==
    IF st.thrown THEN st
    ELSE IF kind = "ok" THEN Effect(st, "exec", cmd, "ok")
    ELSE Throw(Effect(st, "exec", cmd, kind), ExecError(kind, cmd, ms))

(***************************************************************************)
(* RESPONSES                                                               *)
(***************************************************************************)

\* JSON.stringify({ success: false, error: error.message || String(error) })
FailureEnvelope(message) == [success |-> FALSE, error |-> message]

\* What a driver hands back: the string it returns, or the error it throws.
Returned(st, envelope) == [st EXCEPT !.thrown = FALSE, !.err = <<>>] @@ [env |-> envelope]
Raised(st) == st @@ [env |-> << >>]

\* A plausible slip: a driver without its catch block.
CatchNothing(st, envelope) ==
    IF st.thrown THEN Raised(st) ELSE Returned(st, envelope)

\* try { ... return success } catch (error) { return failure }
Catch(st, envelope) ==
    IF st.thrown THEN Returned(st, FailureEnvelope(st.err)) ELSE Returned(st, envelope)

(***************************************************************************)
(* DRIVERS                                                                 *)
(*                                                                         *)
(* Each driver takes, besides its arguments, the outcomes o the outside    *)
(* world gives to its steps: the random token, the file-system step that   *)
(* fails, how each command ends and what it leaves on disk. A read fails   *)
(* only when the file or directory it reads is missing.                    *)
(***************************************************************************)

\* A command that was launched in dir leaves the file there, or not.
ToolAddsFile(st, dir, kind, name, wrote) ==
    IF st.thrown \/ kind = "launch" \/ ~wrote \/ dir \notin DOMAIN st.fs THEN st
    ELSE [st EXCEPT !.fs[dir].files = @ \cup {name}]

\* The flow that was launched in dir leaves runs/, or not.
FlowWrites(st, dir, kind, flow) ==
    IF st.thrown \/ kind = "launch" \/ dir \notin DOMAIN st.fs THEN st
    ELSE [st EXCEPT !.fs[dir].runsDir = flow.runsDir, !.fs[dir].runs = flow.runs]

\* A plausible slip: the read has no try/catch of its own.
ReadFileThrows(st, dir, name) ==
    IF st.thrown THEN st
    ELSE IF name \in st.fs[dir].files THEN Effect(st, "fs", name, "ok")
    ELSE Throw(Effect(st, "fs", name, "fail"), FsError("open"))

\* fs.readFile(join(dir, name)) inside its own try/catch: nothing is thrown.
ReadFile(st, dir, name) ==
    IF st.thrown THEN st
    ELSE Effect(st, "fs", name, IF name \in st.fs[dir].files THEN "ok" ELSE "fail")

\* The end of synthesizeVerilog: the text of the netlist or the placeholder.
SynthesisResult(st, projectId, projectDir, target) ==
    Catch(st,
          [project_id |-> projectId, success |-> TRUE,
           stdout |-> "stdout-text", stderr |-> StderrText,
           synthesized_verilog |->
                IF ~st.thrown /\ "synth_output.v" \in st.fs[projectDir].files
                THEN "synth_output.v text"
                ELSE "Synthesis output not generated",
           target |-> target])

\* A plausible slip: the target is compared as it was given.
SameCase(text) == text

\* String.prototype.toLowerCase, on the target names of the model.
ToLowerCase(text) ==
    CASE text \in {"ICE40", "Ice40"} -> "ice40"
      [] text \in {"XILINX", "Xilinx"} -> "xilinx"
      [] text = "INTEL" -> "intel"
      [] OTHER -> text

\* The synthesis script: the commands of the template the target selects.
SynthScript(topModule, target) ==
    LET lowered == ToLowerCase(target)
    IN  <<"read_verilog design.v", "hierarchy -check -top ", topModule>>
        \o (IF lowered = "ice40" THEN <<"synth_ice40 -top ", topModule>>
            ELSE IF lowered = "xilinx" THEN <<"synth_xilinx -top ", topModule>>
            ELSE <<"synth -top ", topModule, "techmap", "opt">>)
        \o <<"write_verilog synth_output.v", "stat">>

synthesizeVerilog(verilogCode, topModule, target, o) ==
    LET projectId == o.rand
        projectDir == SynthDir(projectId)
        s1 == Mkdir(Begin, projectDir, o.fail # "mkdir")
        s2 == RegistrySet(s1, projectId, [dir |-> projectDir, type |-> "synthesis"])
        s3 == WriteFile(s2, projectDir, "design.v", o.fail # "write1")
        s4 == WriteFile(IF s3.thrown THEN s3
                        ELSE Effect(s3, "script", SynthScript(topModule, target), "ok"),
                        projectDir, "synth.ys", o.fail # "write2")
        s5 == ToolAddsFile(s4, projectDir, o.exec, "synth_output.v", o.wrote)
        s6 == Exec(s5, "yosys", o.exec, "120000")
    IN  SynthesisResult(ReadFile(s6, projectDir, "synth_output.v"), projectId, projectDir, target)

simulateVerilog(verilogCode, testbenchCode, o) ==
    LET projectId == o.rand
        projectDir == SimDir(projectId)
        s1 == Mkdir(Begin, projectDir, o.fail # "mkdir")
        s2 == RegistrySet(s1, projectId, [dir |-> projectDir, type |-> "simulation"])
        s3 == WriteFile(s2, projectDir, "design.v", o.fail # "write1")
        s4 == WriteFile(s3, projectDir, "testbench.v", o.fail # "write2")
        s6 == Exec(s4, "iverilog", o.exec, "60000")
        s7 == ToolAddsFile(s6, projectDir, o.exec2, "output.vcd", o.wrote)
        s8 == Exec(s7, "./simulation", o.exec2, "60000")
    IN  Catch(s8,
              [project_id |-> projectId, success |-> TRUE,
               compile_stdout |-> "stdout-text", compile_stderr |-> StderrText,
               sim_stdout |-> "stdout-text", sim_stderr |-> StderrText,
               note |-> <<"Use view_waveform with project_id: ", projectId, " to open GTKWave">>])

\* commandExists(command): `which` ends with status 0, or the probe fails.
CommandExists(st, command, found) ==
    IF st.thrown THEN st
    ELSE Effect(st, "which", command, IF found THEN "ok" ELSE "exit")

\* The names of the model's files that end in '.vcd' and in '.gds'.
VcdNames == {"output.vcd", "wave.vcd"}
GdsNames == {"d.gds"}

\* A plausible slip: the listing is handed out without the filter.
AllFiles(files) == files

\* files.filter(f => f.endsWith('.vcd'))
VcdFiles(files) == files \cap VcdNames

ProjectNotFound(projectId, hint) ==
    FailureEnvelope(<<"Project ", projectId, hint>>)

\* A plausible slip: the directory is looked at before the registry.
LookupAfterAccess(st, projectId) ==
    Effect(st, "fs", "access", IF projectId \in DOMAIN st.projects THEN "ok" ELSE "fail")

\* A plausible slip: a lookup that registers a record for an id it does not
\* know.
LookupOrCreate(st, projectId) ==
    IF projectId \in DOMAIN st.projects THEN st
    ELSE [st EXCEPT !.projects =
            (projectId :> [dir |-> SynthDir(projectId), type |-> "synthesis"]) @@ @]

\* const project = this.projects.get(projectId): no effect on anything.
Lookup(st, projectId) == st

viewWaveform(projectId, vcdFile, o) ==
    LET s0 == Lookup(Begin, projectId)
    IN  IF projectId \notin DOMAIN s0.projects
        THEN Returned(s0, ProjectNotFound(projectId, " not found. Run a simulation first."))
        ELSE
        LET project == s0.projects[projectId]
            there == project.dir \in DOMAIN s0.fs
            exists == there /\ vcdFile \in s0.fs[project.dir].files
            s1 == Effect(s0, "fs", "access", IF exists THEN "ok" ELSE "fail")
        IN  IF ~exists
            THEN IF ~there
                 THEN Catch(Throw(Effect(s1, "fs", "readdir", "fail"), FsError("scandir")), << >>)
                 ELSE Returned(Effect(s1, "fs", "readdir", "ok"),
                        [success |-> FALSE,
                         error |-> <<"VCD file '", vcdFile, "' not found in project ", projectId>>,
                         available_vcd_files |-> VcdFiles(s1.fs[project.dir].files),
                         note |-> "Make sure your testbench includes $dumpfile() and $dumpvars() commands"])
            ELSE
            LET s2 == CommandExists(s1, "gtkwave", o.found)
            IN  IF ~o.found
                THEN Returned(s2,
                        [success |-> FALSE,
                         error |-> <<"GTKWave not found. Please install GTKWave to view waveforms.">>,
                         install_instructions |->
                            [macos |-> "brew install gtkwave",
                             linux |-> "sudo apt-get install gtkwave",
                             windows |-> "Install GTKWave from http://gtkwave.sourceforge.net/"]])
                ELSE Catch(Exec(s2, "gtkwave", o.exec, "5000"),
                        [success |-> TRUE,
                         message |-> <<"GTKWave launched for project ", projectId>>,
                         vcd_file |-> vcdFile, vcd_path |-> <<project.dir, vcdFile>>,
                         project_type |-> project.type])

(***************************************************************************)
(* RUNS AND REPORTS                                                        *)
(***************************************************************************)

Min(a, b) == IF a < b THEN a ELSE b

\* The order of Array.prototype.sort() without a comparator: by code units,
\* a proper prefix first.
LexLess(a, b) ==
    \E i \in 1..(Min(Len(a), Len(b)) + 1) :
        /\ \A j \in 1..(i - 1) : a[j] = b[j]
        /\ \/ i > Len(a) /\ i <= Len(b)
           \/ i <= Len(a) /\ i <= Len(b) /\ a[i] < b[i]

RECURSIVE Sort(_)
\* runs.sort(): the names in ascending order.
Sort(names) ==
    IF names = {} THEN <<>>
    ELSE LET least == CHOOSE n \in names : \A m \in names \ {n} : LexLess(n, m)
         IN  <<least>> \o Sort(names \ {least})

\* Array.prototype.reverse()
Reverse(seq) == [i \in 1..Len(seq) |-> seq[Len(seq) + 1 - i]]

\* A plausible slip: the first name of the sorted listing.
EarliestRun(names) == Sort(names)[1]

\* runs.sort().reverse()[0]
LatestRun(names) == Reverse(Sort(names))[1]

\* `if (text)`: the file was read and is not empty.
Truthy(file) == file # <<>> /\ file[1].len > 0

\* text.substring(0, n): the first n characters of the text.
Substring(text, n) == [of |-> text, len |-> Min(text.len, n)]

\* The bounds of the previews of readOpenlaneReports.
ReportPreview == 2000
SummaryPreview == 3000

\* The bound of the captured output in the response of runOpenlane.
OutputPreview == 2000

TruncationMarker == "...(truncated)"

\* text.length > n ? text.substring(0, n) + "...(truncated)" : text
Truncate(text, n) ==
    IF text.len > n
    THEN [of |-> text, len |-> n, marker |-> <<TruncationMarker>>]
    ELSE [of |-> text, len |-> text.len, marker |-> <<>>]

\* The names of the model's files that contain 'sta' or 'timing'.
TimingNames == {"sta.rpt", "timing.rpt"}

RECURSIVE FirstTiming(_)
\* The loop over the routing reports: the first file, in listing order, whose
\* name matches and that could be read and is not empty; the loop ends there.
FirstTiming(files) ==
    IF files = <<>> THEN <<>>
    ELSE IF Head(files).name \in TimingNames /\ Truthy(Head(files).text)
    THEN <<Head(files).text[1]>>
    ELSE FirstTiming(Tail(files))

\* A plausible slip: a report without the pattern counts no cell.
CellMatchOrZero(synthReport) ==
    IF Truthy(synthReport) /\ synthReport[1].cells # <<>> THEN synthReport[1].cells ELSE <<0>>

\* synthReport.match(/Number of cells:\s*(\d+)/): the number after the
\* pattern, nothing (the initial null stays) without a report or a match.
CellMatch(synthReport) ==
    IF Truthy(synthReport) THEN synthReport[1].cells ELSE <<>>

\* A plausible slip: the timing flag adds no issue.
IssuesWithoutTiming(status) ==
    (IF ~status.synthesis_complete THEN <<"Synthesis incomplete">> ELSE <<>>)
    \o (IF ~status.routing_complete THEN <<"Routing incomplete">> ELSE <<>>)

\* The issues of a design status: one push per flag that is false.
Issues(status) ==
    (IF ~status.synthesis_complete THEN <<"Synthesis incomplete">> ELSE <<>>)
    \o (IF ~status.timing_clean THEN <<"Timing violations detected">> ELSE <<>>)
    \o (IF ~status.routing_complete THEN <<"Routing incomplete">> ELSE <<>>)

\* The results object of readOpenlaneReports for the latest run.
ReportSummary(projectId, latestRun, rundir) ==
    LET synthReport == rundir.synth
        hasSynth == Truthy(synthReport)
        timing == IF rundir.routing = <<>> THEN <<>> ELSE FirstTiming(rundir.routing[1])
        wns == IF timing = <<>> THEN <<>> ELSE timing[1].wns
        finalSummary == rundir.final
        hasFinal == Truthy(finalSummary)
        status == [synthesis_complete |-> hasSynth,
                   timing_clean |-> wns # <<>> /\ wns[1] >= 0,
                   routing_complete |-> hasFinal]
        issues == Issues(status)
    IN  [project_id |-> projectId,
         run_id |-> latestRun,
         success |-> TRUE,
         ppa_metrics |->
            [power_mw |-> <<>>, max_frequency_mhz |-> <<>>,
             total_cells |-> CellMatch(synthReport),
             logic_area_um2 |-> <<>>,
             timing_slack_ns |-> wns],
         design_status |-> status,
         reports |->
            [synthesis |-> IF hasSynth THEN <<Substring(synthReport[1], ReportPreview)>> ELSE <<>>,
             timing |-> IF timing = <<>> THEN <<>> ELSE <<Substring(timing[1], ReportPreview)>>,
             final_summary |-> IF hasFinal THEN <<Substring(finalSummary[1], SummaryPreview)>> ELSE <<>>],
         summary |->
            [status |-> IF issues = <<>> THEN "SUCCESS" ELSE "ISSUES_FOUND",
             issues |-> issues,
             note |-> "PPA metrics and design status extracted from OpenLane reports"]]

NoRunsDirectory == <<"No runs directory found.", " Run OpenLane flow first.">>
NoRunsFound == <<"No OpenLane runs found.", " Run OpenLane flow first.">>

\* A plausible slip: one message for both cases.
RunsErrorSame(exists) == NoRunsFound

\* The error of readOpenlaneReports when readdir(runs/) throws, and when it
\* gives no entry.
RunsError(exists) == IF exists THEN NoRunsFound ELSE NoRunsDirectory

\* A plausible slip: the files read for a run are kept and handed out again
\* by the next call.
RunFilesKept(st, dir, name) ==
    IF last.tool = "read_openlane_reports" /\ last.seen # <<>>
       /\ name \in DOMAIN last.seen[1].runs
    THEN last.seen[1].runs[name]
    ELSE st.fs[dir].runs[name]

\* The report files of a run: every call reads them from the disk.
RunFiles(st, dir, name) == st.fs[dir].runs[name]

\* A plausible slip: a report that cannot be read aborts the summary.
ReadReportThrows(st, file) ==
    IF file = <<>> THEN Throw(st, FsError("open")) ELSE st

\* The readFile helper of readOpenlaneReports: an error of fs.readFile is
\* caught and null returned, so nothing is thrown for a missing report.
ReadReport(st, file) == st

readOpenlaneReports(projectId, reportType, o) ==
    LET s0 == Lookup(Begin, projectId)
    IN  IF projectId \notin DOMAIN s0.projects
        THEN Returned(s0, ProjectNotFound(projectId, " not found."))
        ELSE
        LET project == s0.projects[projectId]
            exists == project.dir \in DOMAIN s0.fs /\ s0.fs[project.dir].runsDir
            s1 == Effect(s0, "fs", "readdir", IF exists THEN "ok" ELSE "fail")
            runs == IF exists THEN DOMAIN s0.fs[project.dir].runs ELSE {}
        IN  IF runs = {}
            THEN Returned(s1, FailureEnvelope(RunsError(exists)))
            ELSE LET latestRun == LatestRun(runs)
                     files == RunFiles(s0, project.dir, latestRun)
                 IN  Catch(ReadReport(ReadReport(Effect(s1, "fs", "reports", "ok"),
                                                 files.synth), files.final),
                           ReportSummary(projectId, latestRun, files))

RECURSIVE FirstGds(_)
\* gdsFiles.filter(f => f.endsWith('.gds'))[0], "" when there is none.
FirstGds(listing) ==
    IF listing = <<>> THEN ""
    ELSE IF Head(listing) \in GdsNames THEN Head(listing)
    ELSE FirstGds(Tail(listing))

viewGds(projectId, gdsFile, o) ==
    LET s0 == Lookup(Begin, projectId)
    IN  IF projectId \notin DOMAIN s0.projects
        THEN Returned(s0, ProjectNotFound(projectId, " not found."))
        ELSE
        LET project == s0.projects[projectId]
            there == project.dir \in DOMAIN s0.fs
            content == s0.fs[project.dir]
            auto == gdsFile = ""
            hasRuns == there /\ content.runsDir
            runs == IF hasRuns THEN DOMAIN content.runs ELSE {}
            latestRun == LatestRun(runs)
            hasGdsDir == runs # {} /\ content.runs[latestRun].gds # <<>>
            found == IF hasGdsDir THEN FirstGds(content.runs[latestRun].gds[1]) ELSE ""
            s1 == IF auto THEN Effect(s0, "fs", "readdir", IF hasRuns THEN "ok" ELSE "fail") ELSE s0
            s2 == IF auto /\ runs # {}
                  THEN Effect(s1, "fs", "readdir", IF hasGdsDir THEN "ok" ELSE "fail")
                  ELSE s1
            gdsPath == IF auto THEN found ELSE gdsFile
            exists == IF auto THEN found # "" ELSE there /\ gdsFile \in content.files
            s3 == Effect(s2, "fs", "access", IF exists THEN "ok" ELSE "fail")
        IN  IF auto /\ (~hasRuns \/ (runs # {} /\ ~hasGdsDir))
            THEN Returned(s2, FailureEnvelope(
                    <<"No GDS files found in project.", " Run OpenLane flow first.">>))
            ELSE IF gdsPath = ""
            THEN Returned(s2, FailureEnvelope(<<"No GDS file found to open.">>))
            ELSE IF ~exists
            THEN Returned(s3, FailureEnvelope(<<"GDS file not found: ", gdsPath>>))
            ELSE Catch(Exec(s3, "open -a KLayout", o.exec, "10000"),
                    [success |-> TRUE,
                     message |-> <<"KLayout launched with GDS file">>,
                     gds_file |-> gdsPath,
                     gds_path |-> IF auto
                                  THEN <<project.dir, "runs", latestRun, "final", "gds", gdsPath>>
                                  ELSE <<project.dir, gdsPath>>,
                     project_id |-> projectId,
                     command_executed |-> "open -a KLayout"])

\* The catch block of runOpenlane, and its return.
OpenlaneEnd(st, envelope) ==
    IF st.thrown
    THEN [Catch(st, << >>) EXCEPT !.env = @ @@ [note |->
            "OpenLane flow failed. Make sure Docker is running and try: docker pull efabless/openlane:latest"]]
    ELSE Returned(st, envelope)

\* A plausible slip: the launch of the viewer outside its own try block.
KlayoutLaunchThrows(st, found, kind) ==
    IF found
    THEN Exec(CommandExists(st, "klayout", found), "open -a KLayout", kind, "10000")
    ELSE CommandExists(st, "klayout", found)

\* try { if (await commandExists('klayout')) await execAsyncWithTimeout(...) }
\* catch { }: the probe, the launch when the viewer is there, nothing thrown.
KlayoutLaunch(st, found, kind) ==
    IF found
    THEN Effect(CommandExists(st, "klayout", found), "exec", "open -a KLayout", kind)
    ELSE CommandExists(st, "klayout", found)

\* The end of runOpenlane: the catch block when a step threw, and otherwise
\* the latest run, its layout and the viewer.
OpenlaneResult(st, projectId, projectDir, designName, openInKlayout, pythonCmd, o) ==
    IF st.thrown
    THEN OpenlaneEnd(st, << >>)
    ELSE
        LET content == st.fs[projectDir]
            runs == IF content.runsDir THEN DOMAIN content.runs ELSE {}
            s10 == Effect(st, "fs", "readdir", IF content.runsDir THEN "ok" ELSE "fail")
            latestRun == IF runs = {} THEN <<>> ELSE LatestRun(runs)
            hasGdsDir == runs # {} /\ content.runs[latestRun].gds # <<>>
            s11 == IF runs = {} THEN s10
                   ELSE Effect(s10, "fs", "readdir", IF hasGdsDir THEN "ok" ELSE "fail")
            gdsFile == IF hasGdsDir THEN FirstGds(content.runs[latestRun].gds[1]) ELSE ""
            launch == openInKlayout /\ gdsFile # ""
            s13 == IF launch THEN KlayoutLaunch(s11, o.found, o.open) ELSE s11
            klayoutResult ==
                IF ~launch THEN <<>>
                ELSE IF ~o.found THEN <<"KLayout not found. Install KLayout to view GDS files.">>
                ELSE IF o.open = "ok" THEN <<"KLayout launched with GDS file: ", gdsFile>>
                ELSE <<"KLayout launch failed: ">> \o ExecError(o.open, "open -a KLayout", "10000")
        IN  OpenlaneEnd(s13,
                [project_id |-> projectId, success |-> TRUE,
                 design_name |-> designName, project_dir |-> projectDir,
                 latest_run |-> latestRun,
                 gds_file |-> IF gdsFile # "" THEN gdsFile ELSE "Not generated",
                 gds_path |-> gdsFile,
                 klayout_status |-> klayoutResult,
                 command_used |-> <<pythonCmd, " -m openlane --dockerized config.json">>,
                 stdout |-> Truncate(o.out, OutputPreview),
                 stderr |-> Truncate(o.err, OutputPreview),
                 note |-> "OpenLane flow completed. Check the runs directory for detailed results."])

\* commandExists('python3') ? 'python3' : commandExists('python') ? 'python' : 'python3'
PythonProbe(st, python) ==
    IF python = "python3" THEN CommandExists(st, "python3", TRUE)
    ELSE CommandExists(CommandExists(st, "python3", FALSE), "python", python = "python")

\* runOpenlane. clockPort and clockPeriod only reach the text of config.json,
\* which the model does not follow.
runOpenlane(verilogCode, designName, openInKlayout, o) ==
    LET projectId == o.rand
        projectDir == OpenlaneDir(designName, projectId)
        s1 == RegistrySet(Begin, projectId, [dir |-> projectDir, type |-> "openlane"])
        s2 == Mkdir(s1, projectDir, o.fail # "mkdir")
        s3 == WriteFile(s2, projectDir, "design.v", o.fail # "write1")
        s4 == WriteFile(s3, projectDir, "config.json", o.fail # "write2")
        s6 == PythonProbe(s4, o.python)
        pythonCmd == IF o.python = "none" THEN "python3" ELSE o.python
        s7 == WriteFile(s6, projectDir, "run_openlane.sh", o.fail # "write3")
        s8 == Exec(s7, "chmod", o.chmod, TimeoutMsText)
        s9 == Exec(FlowWrites(s8, projectDir, o.exec, o.flow), "run_openlane.sh", o.exec, TimeoutMsText)
    IN  OpenlaneResult(s9, projectId, projectDir, designName, openInKlayout, pythonCmd, o)

(***************************************************************************)
(* THE TOOL-CALL HANDLER                                                   *)
(***************************************************************************)

ToolNames ==
    {"synthesize_verilog", "simulate_verilog", "view_waveform",
     "run_openlane", "view_gds", "read_openlane_reports"}

\* The tools whose driver registers a project.
CreatingTools == {"synthesize_verilog", "simulate_verilog", "run_openlane"}

\* A thrown McpError: what the protocol layer answers with.
ProtocolError(code, message) ==
    [resp |-> [kind |-> "error", code |-> code, message |-> message, env |-> << >>],
     projects |-> projects, fs |-> fs, log |-> <<>>]

\* return { content: [{ type: "text", text: await driver(...) }] }, and the
\* catch of the handler for what is no McpError.
Deliver(r) ==
    IF r.thrown
    THEN [resp |-> [kind |-> "error", code |-> "InternalError",
                    message |-> <<"Tool execution failed: ">> \o r.err, env |-> << >>],
          projects |-> r.projects, fs |-> r.fs, log |-> r.log]
    ELSE [resp |-> [kind |-> "result", code |-> "none", message |-> <<>>, env |-> r.env],
          projects |-> r.projects, fs |-> r.fs, log |-> r.log]

\* The required parameters of each tool, in the order the handler validates
\* them.
RequiredParameters(name) ==
    CASE name = "synthesize_verilog" -> <<"verilog_code", "top_module">>
      [] name = "simulate_verilog" -> <<"verilog_code", "testbench_code">>
      [] name = "run_openlane" -> <<"verilog_code", "design_name">>
      [] name \in {"view_waveform", "view_gds", "read_openlane_reports"} -> <<"project_id">>
      [] OTHER -> <<>>

\* The switch of the handler: the required parameters are validated in
\* order, the first that fails throws; then the driver runs.
CallTool(name, args, o) ==
    CASE name = "synthesize_verilog" ->
            LET verilogCode == validateRequiredString(args, "verilog_code", name)
                topModule == validateRequiredString(args, "top_module", name)
                target == getStringProperty(args, "target", "generic")
            IN  IF verilogCode.thrown THEN ProtocolError("InvalidParams", verilogCode.message)
                ELSE IF topModule.thrown THEN ProtocolError("InvalidParams", topModule.message)
                ELSE Deliver(synthesizeVerilog(verilogCode.value, topModule.value, target, o))
      [] name = "simulate_verilog" ->
            LET verilogCode == validateRequiredString(args, "verilog_code", name)
                testbenchCode == validateRequiredString(args, "testbench_code", name)
            IN  IF verilogCode.thrown THEN ProtocolError("InvalidParams", verilogCode.message)
                ELSE IF testbenchCode.thrown THEN ProtocolError("InvalidParams", testbenchCode.message)
                ELSE Deliver(simulateVerilog(verilogCode.value, testbenchCode.value, o))
      [] name = "view_waveform" ->
            LET projectId == validateRequiredString(args, "project_id", name)
                vcdFile == getStringProperty(args, "vcd_file", "output.vcd")
            IN  IF projectId.thrown THEN ProtocolError("InvalidParams", projectId.message)
                ELSE Deliver(viewWaveform(projectId.value, vcdFile, o))
      [] name = "run_openlane" ->
            LET verilogCode == validateRequiredString(args, "verilog_code", name)
                designName == validateRequiredString(args, "design_name", name)
                openInKlayout == ~("open_in_klayout" \in DOMAIN args /\ args["open_in_klayout"] = "false")
            IN  IF verilogCode.thrown THEN ProtocolError("InvalidParams", verilogCode.message)
                ELSE IF designName.thrown THEN ProtocolError("InvalidParams", designName.message)
                ELSE Deliver(runOpenlane(verilogCode.value, designName.value, openInKlayout, o))
      [] name = "view_gds" ->
            LET projectId == validateRequiredString(args, "project_id", name)
                gdsFile == getStringProperty(args, "gds_file", "")
            IN  IF projectId.thrown THEN ProtocolError("InvalidParams", projectId.message)
                ELSE Deliver(viewGds(projectId.value, gdsFile, o))
      [] name = "read_openlane_reports" ->
            LET projectId == validateRequiredString(args, "project_id", name)
                reportType == getStringProperty(args, "report_type", "")
            IN  IF projectId.thrown THEN ProtocolError("InvalidParams", projectId.message)
                ELSE Deliver(readOpenlaneReports(projectId.value, reportType, o))
      [] OTHER -> ProtocolError("MethodNotFound", <<"Tool not found: ", name>>)

\* What the directory of the record of project_id held when the call came.
Seen(args) ==
    IF "project_id" \in DOMAIN args /\ args["project_id"] \in DOMAIN projects
       /\ projects[args["project_id"]].dir \in DOMAIN fs
    THEN <<fs[projects[args["project_id"]].dir]>>
    ELSE <<>>

\* The state after a tool call that ended as r.
Answer(name, args, r) ==
    LET created == /\ name \in CreatingTools
                   /\ r.resp.kind = "result"
                   /\ r.resp.env.success
    IN  /\ projects' = r.projects
        /\ fs' = r.fs
        /\ last' = [tool |-> name, args |-> args, resp |-> r.resp, log |-> r.log,
                    seen |-> IF name = "run_openlane" /\ created
                             THEN <<r.fs[r.resp.env.project_dir]>>
                             ELSE Seen(args)]
        /\ before' = IF name = "read_openlane_reports" /\ last.tool = name
                     THEN last ELSE [tool |-> "none"]
        /\ issued' = IF created
                     THEN LET id == r.resp.env.project_id
                          IN  IF id \in DOMAIN issued
                              THEN [issued EXCEPT ![id].times = 2]
                              ELSE (id :> [rec |-> r.projects[id], times |-> 1]) @@ issued
                     ELSE issued
        /\ UNCHANGED <<run, tasks>>

\* One tool call, from the request to the response.
Call(name, args, o) == Answer(name, args, CallTool(name, args, o))

(***************************************************************************)
(* INVOCATIONS IN FLIGHT                                                   *)
(*                                                                         *)
(* The handler is asynchronous: an invocation runs until its next await    *)
(* and another one may run in between. A creating driver is followed from  *)
(* the draw of its id over the await of mkdir to its return; a lookup is   *)
(* the synchronous this.projects.get at the head of a driver.              *)
(***************************************************************************)

Tasks == {"t1", "t2", "t3"}

IdleTask == [pc |-> "idle", tool |-> "none", id |-> "", rec |-> << >>,
             returned |-> <<>>, got |-> <<>>]

\* The record a creating driver registers under the id it drew.
TaskRecord(tool, id) ==
    CASE tool = "synthesize_verilog" -> [dir |-> SynthDir(id), type |-> "synthesis"]
      [] tool = "simulate_verilog" -> [dir |-> SimDir(id), type |-> "simulation"]
      [] tool = "run_openlane" -> [dir |-> OpenlaneDir("d", id), type |-> "openlane"]

\* The driver runs up to `await fs.mkdir`: runOpenlane has registered its
\* record by then, the two other drivers have not.
TaskStart(t, tool, id) ==
    /\ tasks[t].pc = "idle"
    /\ tasks' = [tasks EXCEPT ![t] = [IdleTask EXCEPT !.pc = "mkdir", !.tool = tool,
                                        !.id = id, !.rec = TaskRecord(tool, id)]]
    /\ projects' = IF tool = "run_openlane"
                   THEN (id :> TaskRecord(tool, id)) @@ projects ELSE projects
    /\ UNCHANGED <<run, fs, last, before, calls, issued>>

\* mkdir ends and the driver runs up to its next await; a failure is caught
\* and the driver returns the failure envelope.
TaskMkdir(t, ok) ==
    /\ tasks[t].pc = "mkdir"
    /\ LET task == tasks[t]
       IN  IF ok
           THEN /\ fs' = IF task.rec.dir \in DOMAIN fs THEN fs
                          ELSE (task.rec.dir :> EmptyDir) @@ fs
                /\ projects' = IF task.tool = "run_openlane" THEN projects
                               ELSE (task.id :> task.rec) @@ projects
                /\ tasks' = [tasks EXCEPT ![t].pc = "work"]
           ELSE /\ tasks' = [tasks EXCEPT ![t].pc = "done"]
                /\ UNCHANGED <<fs, projects>>
    /\ UNCHANGED <<run, last, before, calls, issued>>

\* The remaining awaits end and the driver returns: the success envelope
\* with its project_id, or the failure envelope of its catch block.
TaskReturn(t, ok) ==
    /\ tasks[t].pc = "work"
    /\ tasks' = [tasks EXCEPT ![t].pc = "done",
                              ![t].returned = IF ok THEN <<tasks[t].id>> ELSE <<>>]
    /\ UNCHANGED <<run, projects, fs, last, before, calls, issued>>

\* this.projects.get(projectId) of a viewing or reading driver.
TaskLookup(t, id) ==
    /\ tasks[t].pc = "idle"
    /\ tasks' = [tasks EXCEPT ![t] = [IdleTask EXCEPT !.pc = "done", !.tool = "lookup",
                                        !.id = id,
                                        !.got = IF id \in DOMAIN projects
                                                THEN <<projects[id]>> ELSE <<>>]]
    /\ UNCHANGED <<run, projects, fs, last, before, calls, issued>>

ConcurrentNext ==
    \/ \E t \in Tasks, tool \in CreatingTools, id \in Ids : TaskStart(t, tool, id)
    \/ \E t \in Tasks, ok \in BOOLEAN : TaskMkdir(t, ok)
    \/ \E t \in Tasks, ok \in BOOLEAN : TaskReturn(t, ok)
    \/ \E t \in Tasks, id \in Ids : TaskLookup(t, id)

(***************************************************************************)
(* SERVER STATE                                                            *)
(***************************************************************************)

NoCall == [tool |-> "none"]

Init ==
    /\ run = IdleRun
    /\ projects = << >>
    /\ fs = << >>
    /\ last = NoCall
    /\ before = NoCall
    /\ calls = 0
    /\ issued = << >>
    /\ tasks = [t \in Tasks |-> IdleTask]

(***************************************************************************)
(* THE OUTSIDE WORLD: REQUESTS AND OUTCOMES                                *)
(***************************************************************************)

\* The argument objects over the keys K, V[k] being the values of key k; a
\* key may be missing.
ArgSets(K, V) ==
    UNION { {f \in [S -> UNION {V[k] : k \in K}] : \A k \in S : f[k] \in V[k]} : S \in SUBSET K }

SynthArgs ==
    ArgSets({"verilog_code", "top_module", "target"},
            [verilog_code |-> {NonString, "module"}, top_module |-> {"", "top"},
             target |-> {"ice40"}])
SimArgs ==
    ArgSets({"verilog_code", "testbench_code"},
            [verilog_code |-> {"module"}, testbench_code |-> {"", "tb"}])
WaveArgs ==
    ArgSets({"project_id", "vcd_file"},
            [project_id |-> {"", "a", "b"}, vcd_file |-> {"wave.vcd"}])
OpenlaneArgs ==
    ArgSets({"verilog_code", "design_name", "open_in_klayout"},
            [verilog_code |-> {"module"}, design_name |-> {NonString, "d"},
             open_in_klayout |-> {"false"}])
GdsArgs ==
    ArgSets({"project_id", "gds_file"},
            [project_id |-> {"a", "b"}, gds_file |-> {"d.gds", "output.vcd"}])
ReadArgs ==
    ArgSets({"project_id", "report_type"},
            [project_id |-> {"a", "b"}, report_type |-> {"synthesis"}])

\* The requests with every required parameter in place.
Valid(argset, required) ==
    {args \in argset : \A k \in required : getStringProperty(args, k, "") # ""}

\* Report texts: the length, and what the patterns of the extractor find.
SmallReport == [len |-> 120, cells |-> <<42>>, wns |-> <<>>]
LongReport == [len |-> 2500, cells |-> <<>>, wns |-> <<-3>>]
CleanTiming == [len |-> 300, cells |-> <<>>, wns |-> <<1>>]

\* A synthesis report above the preview bound.
LongSynthesis == [len |-> 2500, cells |-> <<42>>, wns |-> <<>>]

\* A final summary above its preview bound.
LongSummary == [len |-> 3500, cells |-> <<>>, wns |-> <<>>]

\* A run whose reports are long.
LongRun ==
    [synth |-> <<LongSynthesis>>,
     routing |-> << <<[name |-> "timing.rpt", text |-> <<LongReport>>]>> >>,
     final |-> <<LongSummary>>,
     gds |-> <<>>]

\* A run with its reports and its layout.
FullRun ==
    [synth |-> <<SmallReport>>,
     routing |-> << <<[name |-> "drc.rpt", text |-> <<SmallReport>>],
                      [name |-> "sta.rpt", text |-> <<CleanTiming>>]>> >>,
     final |-> <<LongReport>>,
     gds |-> << <<"d.lyp", "d.gds">> >>]

\* What a flow leaves in the project directory.
NoRuns == [runsDir |-> FALSE, runs |-> << >>]
EmptyRuns == [runsDir |-> TRUE, runs |-> << >>]
OneBareRun == [runsDir |-> TRUE, runs |-> (<<1>> :> BareRun)]
TwoRuns == [runsDir |-> TRUE, runs |-> (<<1, 0>> :> FullRun) @@ (<<2>> :> BareRun)]
ThreeRuns == [runsDir |-> TRUE,
              runs |-> (<<1>> :> BareRun) @@ (<<1, 0>> :> BareRun) @@ (<<2>> :> FullRun)]
LongRuns == [runsDir |-> TRUE, runs |-> (<<3>> :> LongRun)]

\* A report that holds none of the patterns.
Garbled == [len |-> 10, cells |-> <<>>, wns |-> <<>>]

\* The full run without the files of some phases, unparsable ones in their
\* place when garbled.
Degraded(missing, garbled) ==
    [synth |-> IF "synth" \in missing THEN (IF garbled THEN <<Garbled>> ELSE <<>>)
               ELSE FullRun.synth,
     routing |-> IF "routing" \in missing
                 THEN (IF garbled THEN << <<[name |-> "sta.rpt", text |-> <<Garbled>>]>> >>
                       ELSE <<>>)
                 ELSE FullRun.routing,
     final |-> IF "final" \in missing THEN <<>> ELSE FullRun.final,
     gds |-> FullRun.gds]

\* A routing-report directory with two timing reports, one of them without
\* a slack, in the two orders readdir can list them.
TimingListings ==
    {<<[name |-> "sta.rpt", text |-> <<Garbled>>], [name |-> "timing.rpt", text |-> <<CleanTiming>>]>>,
     <<[name |-> "timing.rpt", text |-> <<CleanTiming>>], [name |-> "sta.rpt", text |-> <<Garbled>>]>>}

\* A report file that exists and is empty.
Blank == [len |-> 0, cells |-> <<>>, wns |-> <<>>]

PartialFlows ==
    {[runsDir |-> TRUE, runs |-> (<<4>> :> Degraded(missing, FALSE))] :
        missing \in SUBSET {"synth", "routing", "final"}}
    \cup {[runsDir |-> TRUE, runs |-> (<<4>> :> Degraded({phase}, TRUE))] :
        phase \in {"synth", "routing"}}
    \cup {[runsDir |-> TRUE,
           runs |-> (<<4>> :> [FullRun EXCEPT !.synth = <<Blank>>, !.final = <<Blank>>])]}
    \cup {[runsDir |-> TRUE, runs |-> (<<4>> :> [FullRun EXCEPT !.routing = <<listing>>])] :
            listing \in TimingListings}

Flows == {NoRuns, EmptyRuns, OneBareRun, TwoRuns, ThreeRuns, LongRuns}

\* What a command wrote to an output stream: within the preview bound, above it.
ShortOutput == [len |-> 40]
LongOutput == [len |-> 2500]

\* The outcomes when every step goes well and no tool leaves anything.
Fine ==
    [rand |-> "a", fail |-> "none", exec |-> "ok", exec2 |-> "ok", wrote |-> FALSE,
     found |-> TRUE, python |-> "python3", chmod |-> "ok", flow |-> NoRuns, open |-> "ok",
     out |-> ShortOutput, err |-> ShortOutput]

Failures(kinds) == kinds \ {"ok"}

SynthOutcomes(ids) ==
    UNION { {[Fine EXCEPT !.rand = id, !.fail = f] : f \in {"mkdir", "write1", "write2"}}
            \cup {[Fine EXCEPT !.rand = id, !.exec = k, !.wrote = w] :
                    k \in ExecKinds, w \in BOOLEAN} : id \in ids }

SimOutcomes(ids) ==
    UNION { {[Fine EXCEPT !.rand = id, !.fail = f] : f \in {"mkdir", "write1", "write2"}}
            \cup {[Fine EXCEPT !.rand = id, !.exec = k] : k \in Failures(ExecKinds)}
            \cup {[Fine EXCEPT !.rand = id, !.exec2 = k, !.wrote = w] :
                    k \in ExecKinds, w \in BOOLEAN} : id \in ids }

OpenlaneOutcomes(ids, flows) ==
    UNION { {[Fine EXCEPT !.rand = id, !.fail = f] : f \in {"mkdir", "write1", "write2", "write3"}}
            \cup {[Fine EXCEPT !.rand = id, !.chmod = k] : k \in Failures(RunnerKindsOfFailure)}
            \cup {[Fine EXCEPT !.rand = id, !.exec = k, !.flow = fl] :
                    k \in Failures(RunnerKindsOfFailure), fl \in flows}
            \cup {[Fine EXCEPT !.rand = id, !.flow = fl, !.found = FALSE, !.python = py] :
                    fl \in flows, py \in {"python3", "python", "none"}}
            \cup {[Fine EXCEPT !.rand = id, !.flow = fl, !.open = k] :
                    fl \in flows, k \in RunnerKindsOfFailure}
            \cup {[Fine EXCEPT !.rand = id, !.out = t, !.err = e] :
                    t \in {ShortOutput, LongOutput}, e \in {ShortOutput, LongOutput}} : id \in ids }

WaveOutcomes ==
    {[Fine EXCEPT !.found = FALSE]} \cup {[Fine EXCEPT !.exec = k] : k \in ExecKinds}

GdsOutcomes == {[Fine EXCEPT !.exec = k] : k \in RunnerKindsOfFailure}

\* The number of calls of the creating tools a behaviour holds.
MaxCreations == 2

(***************************************************************************)
(* ACTIONS                                                                 *)
(***************************************************************************)

CallSynthesize(argset, outcomes) ==
    /\ calls < MaxCreations
    /\ calls' = calls + 1
    /\ \E args \in argset, o \in outcomes : Call("synthesize_verilog", args, o)

CallSimulate(argset, outcomes) ==
    /\ calls < MaxCreations
    /\ calls' = calls + 1
    /\ \E args \in argset, o \in outcomes : Call("simulate_verilog", args, o)

CallRunOpenlane(argset, outcomes) ==
    /\ calls < MaxCreations
    /\ calls' = calls + 1
    /\ \E args \in argset, o \in outcomes : Call("run_openlane", args, o)

CallViewWaveform(argset) ==
    /\ \E args \in argset, o \in WaveOutcomes : Call("view_waveform", args, o)
    /\ UNCHANGED calls

CallViewGds(argset) ==
    /\ \E args \in argset, o \in GdsOutcomes : Call("view_gds", args, o)
    /\ UNCHANGED calls

CallReadReports(argset) ==
    /\ \E args \in argset : Call("read_openlane_reports", args, Fine)
    /\ UNCHANGED calls

CallUnknown ==
    /\ \E args \in ReadArgs : Call("place_and_route", args, Fine)
    /\ UNCHANGED calls

\* The files under the directory of a registered project change between two
\* calls: a flow started outside the server, a clean-up.
FilesChange(flows) ==
    \E id \in DOMAIN projects, fl \in flows :
        /\ projects[id].dir \in DOMAIN fs
        /\ fs' = [fs EXCEPT ![projects[id].dir].runsDir = fl.runsDir,
                            ![projects[id].dir].runs = fl.runs]
        /\ fs' # fs
        /\ UNCHANGED <<run, projects, last, before, calls, issued, tasks>>

\* The requests and outcomes of the registry specification: one valid
\* request per tool, two random tokens, so that two invocations can draw the
\* same one, and for each creating driver the run that succeeds, a failure
\* before and a failure after its first steps.
RegistrySynthArgs == {[verilog_code |-> "module", top_module |-> "top"]}
RegistrySimArgs == {[verilog_code |-> "module", testbench_code |-> "tb"]}
RegistryOpenlaneArgs == {[verilog_code |-> "module", design_name |-> "d"]}
RegistryLookupArgs == {[project_id |-> id] : id \in Ids}
RegistryOutcomes ==
    UNION { {[Fine EXCEPT !.rand = id],
             [Fine EXCEPT !.rand = id, !.fail = "mkdir"],
             [Fine EXCEPT !.rand = id, !.exec = "exit"]} : id \in Ids }

Next ==
    \/ CallSynthesize(RegistrySynthArgs, RegistryOutcomes)
    \/ CallSimulate(RegistrySimArgs, RegistryOutcomes)
    \/ CallRunOpenlane(RegistryOpenlaneArgs, RegistryOutcomes)
    \/ CallViewWaveform(RegistryLookupArgs)
    \/ CallViewGds(RegistryLookupArgs)
    \/ CallReadReports(RegistryLookupArgs)

Spec == Init /\ [][Next]_vars

\* The six tools with every request, valid or not, and every outcome of
\* their steps, for one project: the caller asks for a project while none
\* is registered, and then uses it.
ToolsSynthOutcomes == SynthOutcomes({"a"})
ToolsSimOutcomes == SimOutcomes({"a"})
ToolsOpenlaneOutcomes == OpenlaneOutcomes({"a"}, {NoRuns, EmptyRuns, OneBareRun, TwoRuns})

ToolsNext ==
    \/ projects = << >> /\ CallSynthesize(SynthArgs, ToolsSynthOutcomes)
    \/ projects = << >> /\ CallSimulate(SimArgs, ToolsSimOutcomes)
    \/ projects = << >> /\ CallRunOpenlane(OpenlaneArgs, ToolsOpenlaneOutcomes)
    \/ CallViewWaveform(WaveArgs)
    \/ CallViewGds(GdsArgs)
    \/ CallReadReports(ReadArgs)
    \/ CallUnknown

SpecTools == Init /\ [][ToolsNext]_vars

\* The flow and the report reads of one project, with the files changing in
\* between.
ReportsOpenlaneOutcomes ==
    {[Fine EXCEPT !.flow = fl, !.exec = k] : fl \in Flows, k \in {"ok", "exit"}}
    \cup {[Fine EXCEPT !.fail = "mkdir"], [Fine EXCEPT !.out = LongOutput]}

ReportsNext ==
    \/ CallRunOpenlane(RegistryOpenlaneArgs, ReportsOpenlaneOutcomes)
    \/ CallReadReports(Valid(ReadArgs, {"project_id"}))
    \/ FilesChange(Flows)

SpecReports == Init /\ [][ReportsNext]_vars

\* Synthesis requests with the target in every casing, with another name of
\* the tool description, with a name of no technology, and without target.
TargetArgs ==
    {[verilog_code |-> "module", top_module |-> "top"]}
    \cup {[verilog_code |-> "module", top_module |-> "top", target |-> t] :
            t \in {"ice40", "ICE40", "Ice40", "xilinx", "XILINX", "intel", "generic",
                   "asic", NonString}}

SynthNext == CallSynthesize(TargetArgs, ToolsSynthOutcomes)

SpecSynth == Init /\ [][SynthNext]_vars

\* The flow of one project, the report reads and the layout views of it,
\* with the files changing in between.
LatestNext ==
    \/ CallRunOpenlane(RegistryOpenlaneArgs, ReportsOpenlaneOutcomes)
    \/ CallReadReports(Valid(ReadArgs, {"project_id"}))
    \/ CallViewGds(Valid(GdsArgs, {"project_id"}))
    \/ FilesChange(Flows)

SpecLatest == Init /\ [][LatestNext]_vars

\* Invocations interleaved at their suspension points.
SpecConcurrent == Init /\ [][ConcurrentNext]_vars

\* The report reads of one project whose latest run lacks the reports of
\* some phases, or has unparsable ones.
PartialOutcomes == {[Fine EXCEPT !.flow = fl] : fl \in PartialFlows}

PartialNext ==
    \/ CallRunOpenlane(RegistryOpenlaneArgs, PartialOutcomes)
    \/ CallReadReports(Valid(ReadArgs, {"project_id"}))
    \/ FilesChange(PartialFlows)

SpecPartial == Init /\ [][PartialNext]_vars

\* Records of the three kinds and the report reads of them, with the files
\* of their directories changing in between.
KindsOutcomes == {[Fine EXCEPT !.flow = fl] : fl \in {NoRuns, OneBareRun}}

KindsNext ==
    \/ CallSynthesize(RegistrySynthArgs, KindsOutcomes)
    \/ CallSimulate(RegistrySimArgs, KindsOutcomes)
    \/ CallRunOpenlane(RegistryOpenlaneArgs, KindsOutcomes)
    \/ CallReadReports(RegistryLookupArgs)
    \/ FilesChange(Flows)

SpecKinds == Init /\ [][KindsNext]_vars

\* The flow of one project with the viewer asked for or not, a layout in the
\* latest run or none, and every end of the probe and of the launch.
LayoutOutcomes == OpenlaneOutcomes({"a"}, {EmptyRuns, OneBareRun, ThreeRuns})

LayoutNext ==
    CallRunOpenlane(Valid(OpenlaneArgs, {"verilog_code", "design_name"}), LayoutOutcomes)

SpecLayout == Init /\ [][LayoutNext]_vars

SpecRunner == Init /\ [][RunnerNext]_vars

\* The event loop runs the callbacks that are due and the operating system
\* delivers the signals it was asked to deliver; nothing makes a process or
\* the processes it started end by themselves.
SpecRunnerLive ==
    /\ SpecRunner
    /\ WF_vars(TimerFire)
    /\ WF_vars(InnerTimerFire)
    /\ WF_vars(\E caught \in BOOLEAN : OsDeliver(caught))
    /\ WF_vars(EmitClose)
    /\ WF_vars(HandleEvent)
    /\ WF_vars(RunReturn)

(***************************************************************************)
(* CLAIMS ABOUT THE PROCESS RUNNER                                         *)
(***************************************************************************)

TimedOutReturn ==
    /\ run.phase = "returned"
    /\ run.promise.state = "rejected"
    /\ run.promise.why = "timeout"

\* C1: when a runner invocation whose timeout elapsed returns its failure to
\* the driver, the spawned process and the processes it created no longer
\* run, and the error names the command text.
C1_TimedOutProcessTerminated ==
    TimedOutReturn =>
        /\ ~run.aliveAtReturn
        /\ ~run.kidsAtReturn
        /\ run.cmd \in Range(run.promise.msg)

\* C2: a runner invocation produces one outcome: an outcome once produced is
\* never replaced by a later event, every handled event and every expiry of
\* the timer leaves an outcome, and an expired timer means a failure, also
\* when the process reports exit status 0 afterwards.
C2_OutcomeKept ==
    run.promise.state # "pending" => run'.promise = run.promise

C2_OutcomeProduced ==
    /\ run.timer = "fired" => run.promise = Rejected("timeout", TimeoutMessage(TimeoutMsText, run.cmd))
    /\ run.handled # {} => run.promise.state \in {"resolved", "rejected"}
    /\ run.phase = "returned" => run.promise.state \in {"resolved", "rejected"}

C2_ExactlyOneOutcome == [][C2_OutcomeKept]_vars /\ []C2_OutcomeProduced

\* The timer expired, and afterwards the process was seen to exit with 0.
C2_Witness ==
    /\ run.timer = "fired"
    /\ run.code = 0
    /\ "close" \in run.handled
    /\ run.phase = "returned"

(***************************************************************************)
(* CLAIMS ABOUT THE TOOL CALLS                                             *)
(*                                                                         *)
(* They are stated on last, the record of the tool call that just ended:   *)
(* its request, its response and the ordered log of what its driver did.   *)
(***************************************************************************)

Missing(args, key) == getStringProperty(args, key, "") = ""

MissingParameters(name, args) ==
    {i \in DOMAIN RequiredParameters(name) : Missing(args, RequiredParameters(name)[i])}

RejectedNaming(key) ==
    /\ last.resp.kind = "error"
    /\ last.resp.code = "InvalidParams"
    /\ key \in Range(last.resp.message)
    /\ last.tool \in Range(last.resp.message)
    /\ last.log = <<>>

\* C3 as stated: for each tool and each of its required parameters, a call
\* in which that parameter is missing is rejected with an InvalidParams error
\* that names the parameter and the tool, and the driver is not invoked.
C3_EveryMissingParameterNamed ==
    last.tool \in ToolNames =>
        \A i \in MissingParameters(last.tool, last.args) :
            RejectedNaming(RequiredParameters(last.tool)[i])

\* C3 as amended: a call in which required parameters are missing is rejected
\* with an InvalidParams error that names the tool and the first missing
\* parameter in validation order, and the driver is not invoked.
C3_FirstMissingParameterNamed ==
    (last.tool \in ToolNames /\ MissingParameters(last.tool, last.args) # {}) =>
        LET first == CHOOSE i \in MissingParameters(last.tool, last.args) :
                        \A j \in MissingParameters(last.tool, last.args) : i <= j
        IN  /\ RejectedNaming(RequiredParameters(last.tool)[first])
            /\ last.resp.message[1] = "Missing required parameter '"

\* A synthesize_verilog call with both required parameters missing was
\* rejected.
C3_Witness ==
    /\ last.tool = "synthesize_verilog"
    /\ MissingParameters(last.tool, last.args) = {1, 2}
    /\ last.resp.code = "InvalidParams"

LookupTools == {"view_waveform", "view_gds", "read_openlane_reports"}

UnknownIdentifier ==
    /\ last.tool \in LookupTools
    /\ ~Missing(last.args, "project_id")
    /\ last.args["project_id"] \notin DOMAIN projects

\* C4: view_waveform, view_gds and read_openlane_reports called with an
\* identifier that is not in the registry answer with a success:false
\* envelope whose error names the identifier as not found, and nothing is
\* read from the disk and no process is launched before.
C4_UnknownIdentifierNotFound ==
    UnknownIdentifier =>
        /\ last.resp.kind = "result"
        /\ ~last.resp.env.success
        /\ Len(last.resp.env.error) = 3
        /\ last.resp.env.error[1] = "Project "
        /\ last.resp.env.error[2] = last.args["project_id"]
        /\ last.resp.env.error[3] \in {" not found.", " not found. Run a simulation first."}
        /\ last.log = <<>>

\* A report read for an identifier nobody registered, next to a registered
\* project.
C4_Witness ==
    /\ UnknownIdentifier
    /\ last.tool = "read_openlane_reports"
    /\ projects # << >>

\* C5: every project_id returned in a success response still resolves in the
\* registry to the record of the invocation that returned it.
C5_ReturnedIdKeepsItsRecord ==
    \A id \in DOMAIN issued :
        /\ id \in DOMAIN projects
        /\ projects[id] = issued[id].rec

\* C6: the identifiers returned by distinct successful creating invocations
\* are pairwise distinct, and each resolves to a record whose directory
\* exists on disk.
C6_ReturnedIdsDistinct ==
    \A id \in DOMAIN issued :
        /\ issued[id].times = 1
        /\ id \in DOMAIN projects
        /\ projects[id].dir \in DOMAIN fs

\* The steps whose failure a driver reports inside a success:true envelope:
\* the probes for a command, and in run_openlane the listing of the runs and
\* the launch of the viewer, in synthesize_verilog the read of the netlist.
SoftStep(e) ==
    \/ e[1] = "which"
    \/ last.tool = "run_openlane" /\ e[2] \in {"readdir", "open -a KLayout"}
    \/ last.tool = "synthesize_verilog" /\ e[2] = "synth_output.v"

FailedSteps == {e \in Range(last.log) : e[3] # "ok" /\ ~SoftStep(e)}

CompileEntries == {i \in DOMAIN last.log : last.log[i][2] = "iverilog"}
RunEntries == {i \in DOMAIN last.log : last.log[i][2] = "./simulation"}

\* C8: in simulate_verilog the executable is started only after the compile
\* step succeeded; when the compile step fails the response is success:false
\* with the compiler's stderr text in the error message, and the executable
\* is never started. (A compiler that could not be launched wrote no text.)
C8_CompileFailureShortCircuits ==
    last.tool = "simulate_verilog" =>
        /\ \A i \in RunEntries : \E j \in CompileEntries : j < i /\ last.log[j][3] = "ok"
        /\ \A j \in CompileEntries :
                last.log[j][3] # "ok" =>
                    /\ last.resp.kind = "result"
                    /\ ~last.resp.env.success
                    /\ RunEntries = {}
                    /\ last.log[j][3] # "launch" => StderrText \in Range(last.resp.env.error)

(***************************************************************************)
(* CLAIMS ABOUT THE REPORT READS                                           *)
(*                                                                         *)
(* before and last are two report reads with no other tool call between    *)
(* them; seen is what the directory of the record held at each call.       *)
(***************************************************************************)

\* A report read for a record of the registry.
ReadOfRecord(call) ==
    /\ call.tool = "read_openlane_reports"
    /\ ~Missing(call.args, "project_id")
    /\ call.args["project_id"] \in DOMAIN projects

\* What the call found of runs/: nothing, no entry, or entries.
RunsSeen(call) ==
    IF call.seen = <<>> \/ ~call.seen[1].runsDir THEN "missing"
    ELSE IF call.seen[1].runs = << >> THEN "empty"
    ELSE "entries"

RunsFailure(call) == call.resp.kind = "result" /\ ~call.resp.env.success

\* C9: read_openlane_reports on an existing record returns success:false
\* with a message ending in 'Run OpenLane flow first.' when runs/ does not
\* exist and success:false with another message when runs/ has no entry;
\* the two texts differ, and a non-empty runs/ produces neither.
C9_RunsMessagesDistinct ==
    /\ ReadOfRecord(last) =>
        /\ RunsSeen(last) = "missing" =>
              /\ RunsFailure(last)
              /\ last.resp.env.error[Len(last.resp.env.error)] = " Run OpenLane flow first."
        /\ RunsSeen(last) = "empty" => RunsFailure(last)
        /\ RunsSeen(last) = "entries" =>
              /\ last.resp.kind = "result"
              /\ last.resp.env.success
    /\ (ReadOfRecord(before) /\ ReadOfRecord(last)
        /\ RunsSeen(before) # RunsSeen(last)) =>
            before.resp # last.resp

\* A read that found runs/ empty right after a read that found none.
C9_Witness ==
    /\ ReadOfRecord(before)
    /\ ReadOfRecord(last)
    /\ RunsSeen(before) = "missing"
    /\ RunsSeen(last) = "empty"

SuccessfulRead(call) ==
    /\ ReadOfRecord(call)
    /\ call.resp.kind = "result"
    /\ call.resp.env.success

\* C10: two consecutive reads of a project whose files did not change return
\* the same summary, and a summary is made of the files present at its call:
\* its run is the last name of runs/ in lexicographic order, and its flags
\* and cell count are those of the reports of that run.
C10_IdempotentAndFresh ==
    /\ (ReadOfRecord(before) /\ ReadOfRecord(last)
        /\ before.args["project_id"] = last.args["project_id"]
        /\ before.seen = last.seen) =>
            before.resp = last.resp
    /\ SuccessfulRead(last) =>
        LET names == DOMAIN last.seen[1].runs
            summary == last.resp.env
            files == last.seen[1].runs[summary.run_id]
        IN  /\ summary.run_id \in names
            /\ \A n \in names \ {summary.run_id} : LexLess(n, summary.run_id)
            /\ summary.design_status.synthesis_complete = Truthy(files.synth)
            /\ summary.design_status.routing_complete = Truthy(files.final)
            /\ summary.ppa_metrics.total_cells =
                    IF Truthy(files.synth) THEN files.synth[1].cells ELSE <<>>

\* Two successful reads of the same run name, whose reports changed between
\* them.
C10_Witness ==
    /\ SuccessfulRead(before)
    /\ SuccessfulRead(last)
    /\ before.resp.env.run_id = last.resp.env.run_id
    /\ before.seen # last.seen
    /\ before.resp # last.resp

(***************************************************************************)
(* CLAIMS ABOUT THE DRIVERS                                                *)
(***************************************************************************)

\* A synthesize_verilog call for target "ice40" whose module the synthesis
\* tool accepted: the tool ended with status 0.
Ice40Synthesis ==
    /\ last.tool = "synthesize_verilog"
    /\ getStringProperty(last.args, "target", "generic") = "ice40"
    /\ <<"exec", "yosys", "ok">> \in Range(last.log)

\* C11: a synthesize_verilog request with target "ice40" and a valid module
\* gives an envelope whose target is "ice40" and that holds
\* synthesized_verilog: the text of the output file, or the placeholder when
\* the tool left no output file, which is never reported as a failure.
C11_SynthesisEnvelope ==
    Ice40Synthesis =>
        /\ last.resp.kind = "result"
        /\ last.resp.env.success
        /\ last.resp.env.target = "ice40"
        /\ "synthesized_verilog" \in DOMAIN last.resp.env
        /\ last.resp.env.synthesized_verilog =
                IF "synth_output.v" \in fs[SynthDir(last.resp.env.project_id)].files
                THEN "synth_output.v text"
                ELSE "Synthesis output not generated"

\* The tool accepted the module and left no output file.
C11_Witness ==
    /\ Ice40Synthesis
    /\ last.resp.kind = "result"
    /\ "synth_output.v" \notin fs[SynthDir(last.resp.env.project_id)].files

\* A view_waveform call for a record whose directory does not hold the VCD
\* file that is asked for.
MissingVcd ==
    /\ last.tool = "view_waveform"
    /\ ~Missing(last.args, "project_id")
    /\ last.args["project_id"] \in DOMAIN projects
    /\ last.seen # <<>>
    /\ getStringProperty(last.args, "vcd_file", "output.vcd") \notin last.seen[1].files

\* C12: view_waveform for an existing record and a VCD file name that is not
\* in the record's directory returns success:false with available_vcd_files,
\* exactly the entries of the directory whose names end in '.vcd', and the
\* viewer is not launched.
C12_MissingVcdListsVcdFiles ==
    MissingVcd =>
        /\ last.resp.kind = "result"
        /\ ~last.resp.env.success
        /\ "available_vcd_files" \in DOMAIN last.resp.env
        /\ last.resp.env.available_vcd_files =
                {f \in last.seen[1].files : f \in {"output.vcd", "wave.vcd"}}
        /\ \A e \in Range(last.log) : e[1] # "exec"

\* wave.vcd is asked for where the simulation left output.vcd, next to the
\* sources.
C12_Witness ==
    /\ MissingVcd
    /\ "output.vcd" \in last.seen[1].files
    /\ "design.v" \in last.seen[1].files

ViewerTools == {"view_waveform", "view_gds"}

\* The places of the log where a viewer is launched, and where the viewer
\* binary was found missing.
Launches == {i \in DOMAIN last.log : last.log[i][1] = "exec"}
ViewerAbsent == \E e \in Range(last.log) : e[1] = "which" /\ e[3] # "ok"

\* C13: in view_waveform and view_gds the viewer is launched only after the
\* record was found, the target file was verified to exist and the viewer
\* binary was verified to be present; when the binary is absent the failure
\* carries install guidance per platform and nothing is launched.
C13_LaunchAfterChecks ==
    last.tool \in ViewerTools =>
        /\ \A i \in Launches :
              /\ last.args["project_id"] \in DOMAIN projects
              /\ \E j \in 1..(i - 1) : last.log[j] = <<"fs", "access", "ok">>
              /\ \E j \in 1..(i - 1) : last.log[j][1] = "which" /\ last.log[j][3] = "ok"
        /\ ViewerAbsent =>
              /\ Launches = {}
              /\ last.resp.kind = "result"
              /\ ~last.resp.env.success
              /\ "install_instructions" \in DOMAIN last.resp.env
              /\ DOMAIN last.resp.env.install_instructions = {"macos", "linux", "windows"}

\* The budgets the drivers give their commands, as the message prints them.
BudgetTexts == {"5000", "10000", "60000", "120000", "600000"}

\* The commands of the last call that were ended by a timeout, of exec or of
\* execAsyncWithTimeout, and whose failure the driver does not absorb.
TimedOutSteps ==
    {e \in Range(last.log) : e[1] = "exec" /\ e[3] \in {"timeout", "outer"} /\ ~SoftStep(e)}

\* C14: a command of a driver that outlives its budget makes the driver fail
\* with a timeout error that names the command and the budget, whichever
\* timeout mechanism fired.
C14_TimeoutNamesCommandAndBudget ==
    last.tool # "none" => \A e \in TimedOutSteps :
        /\ last.resp.kind = "result"
        /\ ~last.resp.env.success
        /\ \E ms \in BudgetTexts : last.resp.env.error = TimeoutMessage(ms, e[2])

(***************************************************************************)
(* FURTHER CLAIMS ABOUT THE PROCESS RUNNER                                 *)
(***************************************************************************)

\* The invocation has handed a rejection to its caller.
ReturnedFailure == run.phase = "returned" /\ run.promise.state = "rejected"

\* No timer of the invocation has fired.
NoTimerFired == run.timer # "fired" /\ run.inner # "fired"

\* The command could not be launched: the child emitted 'error', or the
\* shell found no binary it could run.
LaunchFailed == ("error" \in run.handled \/ run.missing) /\ NoTimerFired

\* The leading text of an error message, which tells the forms apart.
Shape(msg) == msg[1]
TimeoutShape == Shape(TimeoutMessage(TimeoutMsText, "c"))
ExitShapes == {Shape(ExecFailedMessage("c")), Shape(SpawnFailedMessage("c", 1))}

\* C15: a launch failure (binary not found or not executable) is never
\* reported with the shape of a timeout nor with the shape of a non-zero
\* exit, by the shell-based and by the spawn-based runner.
C15_LaunchFailureDistinct ==
    ReturnedFailure /\ LaunchFailed =>
        Shape(run.promise.msg) \notin {TimeoutShape} \cup ExitShapes

\* The invocation has handed its outcome to its caller.
ReturnedRun == run.phase = "returned"

\* The process ended by itself with a status (not by a signal).
ExitedWith == IF run.proc = "dead" /\ run.signal = "none" THEN <<run.code>> ELSE <<>>

\* The captured output stayed within the buffer; above it the invocation
\* fails whatever the exit status.
WithinBuffer == run.ex # "maxbuffer"

\* C16: an invocation succeeds if and only if its process exited with status
\* 0 before a timeout; every other exit status gives a failure whose message
\* carries the captured stderr, whatever the value of the status.
C16_SuccessIffExitZero ==
    ReturnedRun =>
        /\ run.promise.state = "resolved" <=>
              (ExitedWith = <<0>> /\ NoTimerFired /\ WithinBuffer)
        /\ \A code \in (ExitCodes \cup {126, 127}) \ {0} :
              ExitedWith = <<code>> /\ NoTimerFired =>
                  /\ run.promise.state = "rejected"
                  /\ StderrText \in Range(run.promise.msg)

\* The invocation has observed the completion of its process: the callback
\* of exec has run, or a listener of the spawn-based runner has.
Observed == IF run.kind = "exec" THEN run.exited ELSE run.handled # {}

\* After the completion was observed no timer is armed.
C17_Disarmed == Observed => run.timer # "armed" /\ run.inner # "armed"

\* After the completion was observed the timeout callback does not run and
\* no signal is sent.
C17_NoLateKill ==
    Observed =>
        /\ run'.killCalls = run.killCalls
        /\ run'.sig = run.sig
        /\ run'.timer = "fired" => run.timer = "fired"

C18_ReportsOnlyForFlowRecords ==
    ReadOfRecord(last) /\ projects[last.args["project_id"]].type # "openlane" =>
        /\ last.resp.kind = "result"
        /\ ~last.resp.env.success

\* The mark a preview ends with, if it has one.
Marker(p) == IF "marker" \in DOMAIN p THEN p.marker ELSE <<>>

\* The texts the response of a call carries, each with its preview bound.
Previews(call) ==
    IF call.tool = "none" \/ call.resp.kind # "result" \/ ~call.resp.env.success THEN {}
    ELSE IF call.tool = "run_openlane"
    THEN {<<call.resp.env.stdout, OutputPreview>>, <<call.resp.env.stderr, OutputPreview>>}
    ELSE IF call.tool = "read_openlane_reports"
    THEN {<<t, ReportPreview>> : t \in Range(call.resp.env.reports.synthesis)
                                       \cup Range(call.resp.env.reports.timing)}
         \cup {<<t, SummaryPreview>> : t \in Range(call.resp.env.reports.final_summary)}
    ELSE {}

\* C19: every captured output and report text of a response is at most its
\* preview bound long, not counting the marker; a text longer than the bound
\* ends with the truncation marker, and a text within the bound is returned
\* whole with no marker.
C19_PreviewsBoundedAndMarked ==
    \A pv \in Previews(last) :
        LET p == pv[1]
            n == pv[2]
        IN  /\ p.len <= n
            /\ p.of.len > n => Marker(p) = <<TruncationMarker>>
            /\ p.of.len <= n => p.len = p.of.len /\ Marker(p) = <<>>

StatusFlags == {"synthesis_complete", "timing_clean", "routing_complete"}

\* The issue that stands for a flag.
IssueOf(flag) ==
    CASE flag = "synthesis_complete" -> "Synthesis incomplete"
      [] flag = "timing_clean" -> "Timing violations detected"
      [] flag = "routing_complete" -> "Routing incomplete"

\* C20: in every successful summary of read_openlane_reports the issues list
\* has exactly one entry for each status flag that is false and none for a
\* flag that is true, and the overall status is SUCCESS if and only if the
\* three flags are true, ISSUES_FOUND otherwise.
C20_IssuesMatchFlags ==
    SuccessfulRead(last) =>
        LET flags == last.resp.env.design_status
            issues == last.resp.env.summary.issues
            status == last.resp.env.summary.status
        IN  /\ DOMAIN flags = StatusFlags
            /\ \A f \in StatusFlags :
                  Cardinality({i \in DOMAIN issues : issues[i] = IssueOf(f)}) =
                      IF flags[f] THEN 0 ELSE 1
            /\ Len(issues) = Cardinality({f \in StatusFlags : ~flags[f]})
            /\ status = IF \A f \in StatusFlags : flags[f] THEN "SUCCESS" ELSE "ISSUES_FOUND"

\* A summary with every flag true, and after it one of a run whose timing
\* report has a negative slack and whose other flags are true.
C20_Witness ==
    /\ SuccessfulRead(before)
    /\ before.resp.env.summary.status = "SUCCESS"
    /\ SuccessfulRead(last)
    /\ last.resp.env.summary.issues = <<"Timing violations detected">>
    /\ last.resp.env.design_status.synthesis_complete

MetricNames ==
    {"power_mw", "max_frequency_mhz", "total_cells", "logic_area_um2", "timing_slack_ns"}

\* The numbers the reports of a run hold for a metric.
Extractable(files, metric) ==
    CASE metric = "total_cells" ->
            IF files.synth = <<>> THEN {} ELSE Range(files.synth[1].cells)
      [] metric = "timing_slack_ns" ->
            IF files.routing = <<>> THEN {}
            ELSE UNION {Range(f.text[1].wns) :
                          f \in {g \in Range(files.routing[1]) :
                                    g.name \in TimingNames /\ g.text # <<>>}}
      [] OTHER -> {}

\* C21: every metric of a report summary is the number extracted from a
\* report of the latest run or the absent value; a metric whose pattern is
\* in no report is absent, never a placeholder number.
C21_MetricsExtractedOrAbsent ==
    SuccessfulRead(last) =>
        LET metrics == last.resp.env.ppa_metrics
            files == last.seen[1].runs[last.resp.env.run_id]
        IN  /\ DOMAIN metrics = MetricNames
            /\ \A m \in MetricNames :
                  /\ Len(metrics[m]) <= 1
                  /\ Range(metrics[m]) \subseteq Extractable(files, m)

\* A summary of a run without reports, then one of a run with a cell count
\* and a slack.
C21_Witness ==
    /\ SuccessfulRead(before)
    /\ \A m \in MetricNames : before.resp.env.ppa_metrics[m] = <<>>
    /\ SuccessfulRead(last)
    /\ last.resp.env.ppa_metrics.total_cells # <<>>
    /\ last.resp.env.ppa_metrics.timing_slack_ns # <<>>
    /\ last.resp.env.ppa_metrics.power_mw = <<>>

\* What a summary holds of one phase: its metric, its flag, its preview.
PhaseValues(summary, phase) ==
    CASE phase = "synth" ->
            <<summary.ppa_metrics.total_cells, summary.design_status.synthesis_complete,
              summary.reports.synthesis>>
      [] phase = "routing" ->
            <<summary.ppa_metrics.timing_slack_ns, summary.design_status.timing_clean,
              summary.reports.timing>>
      [] phase = "final" ->
            <<summary.design_status.routing_complete, summary.reports.final_summary>>

\* C22: whichever of the report files of the latest run are missing or
\* unparsable, read_openlane_reports on a record with a non-empty runs/
\* returns a success summary, and what it extracts from the phases whose
\* files are present is what it extracts when the files of all phases are.
C22_MissingReportsDegradeOnly ==
    ReadOfRecord(last) /\ RunsSeen(last) = "entries" =>
        /\ last.resp.kind = "result"
        /\ last.resp.env.success
        /\ LET summary == last.resp.env
               files == last.seen[1].runs[summary.run_id]
               full == ReportSummary(summary.project_id, summary.run_id, FullRun)
           IN  \A phase \in {"synth", "routing", "final"} :
                  files[phase] = FullRun[phase] =>
                      PhaseValues(summary, phase) = PhaseValues(full, phase)

\* A read of a run without its synthesis report and with the others.
C22_Witness ==
    /\ SuccessfulRead(last)
    /\ last.seen[1].runs[last.resp.env.run_id].synth = <<>>
    /\ last.seen[1].runs[last.resp.env.run_id].routing = FullRun.routing
    /\ last.resp.env.ppa_metrics.total_cells = <<>>
    /\ last.resp.env.ppa_metrics.timing_slack_ns = <<1>>
    /\ last.resp.env.design_status.routing_complete

(***************************************************************************)
(* CLAIMS ABOUT INVOCATIONS IN FLIGHT                                      *)
(***************************************************************************)

\* The creating invocations that have returned a project_id.
ReturnedTasks == {t \in Tasks : tasks[t].pc = "done" /\ tasks[t].returned # <<>>}

\* C23: with invocations interleaved at their suspension points, every
\* invocation that returned a project_id has that id resolving to its own
\* record (its directory and kind), and a lookup gives not-found or the
\* complete record of an invocation.
C23_ConcurrentRegistrySafe ==
    /\ \A t \in ReturnedTasks :
          /\ tasks[t].id \in DOMAIN projects
          /\ projects[tasks[t].id] = tasks[t].rec
    /\ \A t \in Tasks :
          tasks[t].tool = "lookup" /\ tasks[t].got # <<>> =>
              \E u \in Tasks : tasks[u].id = tasks[t].id /\ tasks[u].rec = tasks[t].got[1]

\* C24: every invocation eventually returns to its driver, even when the
\* command it started never exits on its own: it waits only until the
\* process exits, is killed by its timeout, or fails to launch.
C24_EveryInvocationReturns == (run.phase = "active") ~> (run.phase = "returned")

\* The scripts the last call wrote.
ScriptsWritten == {e[2] : e \in {x \in Range(last.log) : x[1] = "script"}}

\* The command that tells the template of a script.
TemplateOf(script) == script[4]

\* C25: the synthesis script is one of three templates, chosen by the target
\* compared without regard to case: any casing of ice40 selects the ice40
\* template, any casing of xilinx the xilinx one, every other value and an
\* absent target the generic one; the response echoes the target as given.
C25_TemplateByTarget ==
    last.tool = "synthesize_verilog" =>
        LET given == getStringProperty(last.args, "target", "generic")
        IN  /\ \A script \in ScriptsWritten :
                  TemplateOf(script) =
                      IF given \in {"ice40", "ICE40", "Ice40"} THEN "synth_ice40 -top "
                      ELSE IF given \in {"xilinx", "XILINX"} THEN "synth_xilinx -top "
                      ELSE "synth -top "
            /\ Cardinality(ScriptsWritten) <= 1
            /\ <<"fs", "synth.ys", "ok">> \in Range(last.log) => ScriptsWritten # {}
            /\ last.resp.kind = "result" /\ last.resp.env.success =>
                  last.resp.env.target = given

\* A synthesis for the target written in capitals.
C25_Witness ==
    /\ last.tool = "synthesize_verilog"
    /\ last.resp.kind = "result"
    /\ last.resp.env.success
    /\ last.resp.env.target = "ICE40"
    /\ \E script \in ScriptsWritten : TemplateOf(script) = "synth_ice40 -top "

\* name is the last of names in lexicographic order.
IsLast(name, names) == name \in names /\ \A n \in names \ {name} : LexLess(n, name)

SuccessOf(call, tool) ==
    call.tool = tool /\ call.resp.kind = "result" /\ call.resp.env.success

\* run_openlane names the last entry of the runs/ its flow left.
C26_RunOpenlane ==
    SuccessOf(last, "run_openlane") =>
        LET content == last.seen[1]
            names == IF content.runsDir THEN DOMAIN content.runs ELSE {}
        IN  IF names = {} THEN last.resp.env.latest_run = <<>>
            ELSE IsLast(last.resp.env.latest_run, names)

\* read_openlane_reports summarises the last entry.
C26_ReadReports ==
    SuccessfulRead(last) => IsLast(last.resp.env.run_id, DOMAIN last.seen[1].runs)

\* view_gds without gds_file opens the layout of the last entry, and fails
\* when that entry has no layout, whatever the other entries hold.
C26_ViewGds ==
    (/\ last.tool = "view_gds"
     /\ last.resp.kind = "result"
     /\ getStringProperty(last.args, "gds_file", "") = ""
     /\ last.seen # <<>>
     /\ last.seen[1].runsDir
     /\ last.seen[1].runs # << >>) =>
        LET names == DOMAIN last.seen[1].runs
            latest == CHOOSE n \in names : IsLast(n, names)
        IN  /\ last.resp.env.success => last.resp.env.gds_path[3] = latest
            /\ last.seen[1].runs[latest].gds = <<>> => ~last.resp.env.success

\* A read that directly follows a run_openlane of the same project names
\* the run that run_openlane named.
C26_ReadAfterFlow ==
    (/\ SuccessOf(last, "run_openlane")
     /\ last.resp.env.latest_run # <<>>
     /\ last'.tool = "read_openlane_reports"
     /\ getStringProperty(last'.args, "project_id", "") = last.resp.env.project_id
     /\ last'.seen = last.seen) =>
        /\ SuccessOf(last', "read_openlane_reports")
        /\ last'.resp.env.run_id = last.resp.env.latest_run

\* C26: for every non-empty runs/ directory, run_openlane, view_gds without
\* gds_file and read_openlane_reports select the lexicographically last entry
\* as the latest run; a read_openlane_reports that follows run_openlane on
\* the unchanged directory reports the run that run_openlane returned.
C26_LatestRunIsLast ==
    /\ [](C26_RunOpenlane /\ C26_ReadReports /\ C26_ViewGds)
    /\ [][C26_ReadAfterFlow]_vars

\* A layout opened from a runs/ with three entries.
C26_Witness ==
    /\ SuccessOf(last, "view_gds")
    /\ getStringProperty(last.args, "gds_file", "") = ""
    /\ Cardinality(DOMAIN last.seen[1].runs) = 3

\* C27: each status flag follows the files of its own phase: synthesis_complete
\* is true iff the synthesis stat report is present, timing_clean iff a
\* worst negative slack was extracted and is not negative, routing_complete
\* iff the final summary is present in the final directory of the latest run.
C27_FlagsFollowOwnFiles ==
    SuccessfulRead(last) =>
        LET files == last.seen[1].runs[last.resp.env.run_id]
            flags == last.resp.env.design_status
            slack == last.resp.env.ppa_metrics.timing_slack_ns
        IN  /\ flags.synthesis_complete <=> files.synth # <<>>
            /\ flags.timing_clean <=> (slack # <<>> /\ slack[1] >= 0)
            /\ flags.routing_complete <=> files.final # <<>>

\* C28: whenever a file of the routing-report directory whose name contains
\* 'sta' or 'timing' holds a worst negative slack, timing_slack_ns is an
\* extracted number and timing_clean tells its sign, in whatever order the
\* directory lists its files.
C28_SlackFoundInAnyOrder ==
    SuccessfulRead(last) =>
        LET files == last.seen[1].runs[last.resp.env.run_id]
            slack == last.resp.env.ppa_metrics.timing_slack_ns
        IN  Extractable(files, "timing_slack_ns") # {} =>
                /\ slack # <<>>
                /\ slack[1] \in Extractable(files, "timing_slack_ns")
                /\ last.resp.env.design_status.timing_clean = (slack[1] >= 0)

\* The steps of the viewer in run_openlane (the probe and the launch), the
\* flow command that ended with status 0, and the viewer being asked for.
KlayoutSteps == {i \in DOMAIN last.log : last.log[i][2] \in {"klayout", "open -a KLayout"}}
FlowSucceeded == <<"exec", "run_openlane.sh", "ok">> \in Range(last.log)
ViewerRequested == ~("open_in_klayout" \in DOMAIN last.args /\ last.args["open_in_klayout"] = "false")

\* C29: in run_openlane, once the flow command has succeeded the response is
\* success:true with the id of the registered project, whatever the probe
\* and the launch of the viewer did; and the viewer is probed or launched
\* only when it was asked for and the latest run holds a layout file.
C29_ViewerFailureIsSoft ==
    last.tool = "run_openlane" =>
        /\ FlowSucceeded =>
              /\ last.resp.kind = "result"
              /\ last.resp.env.success
              /\ last.resp.env.project_id \in DOMAIN projects
        /\ KlayoutSteps # {} =>
              /\ FlowSucceeded
              /\ ViewerRequested
              /\ last.resp.env.latest_run \in DOMAIN last.seen[1].runs
              /\ last.seen[1].runs[last.resp.env.latest_run].gds # <<>>
              /\ last.resp.env.gds_path \in Range(last.seen[1].runs[last.resp.env.latest_run].gds[1])

\* A flow that succeeded and whose viewer could not be launched.
C29_Witness ==
    /\ last.tool = "run_openlane"
    /\ FlowSucceeded
    /\ \E i \in KlayoutSteps : last.log[i][1] = "exec" /\ last.log[i][3] # "ok"
    /\ last.resp.env.success
    /\ last.resp.env.klayout_status[1] = "KLayout launch failed: "

\* C30: the standard output of every command a driver runs (the drivers run
\* their commands with exec) is captured into a buffer bounded at 10 MiB:
\* output up to that bound never fails the invocation for its length, and
\* output beyond it makes the invocation fail.
C30_OutputBoundedAtTenMiB ==
    run.phase = "returned" /\ run.kind = "exec" =>
        /\ run.out <= WrappedMaxBuffer => run.promise.why # "maxbuffer"
        /\ run.out > WrappedMaxBuffer => run.promise.state = "rejected"

\* C31: at every reachable state each record of the registry names a
\* directory that has been created on disk and that no other record names:
\* the three creating drivers register a record only after its directory
\* was created, also when that creation fails.
C31_RecordsHaveOwnDirectories ==
    \A id \in DOMAIN projects :
        /\ projects[id].dir \in DOMAIN fs
        /\ \A other \in DOMAIN projects \ {id} : projects[other].dir # projects[id].dir

\* A call that creates no workspace: a call of a tool that is no creating
\* tool (the three readers, an unknown tool), or a call that was rejected
\* for a missing required parameter.
CreatesNothing(call) ==
    /\ call.tool # "none"
    /\ \/ call.tool \notin CreatingTools
       \/ call.resp.kind = "error" /\ call.resp.code = "InvalidParams"

\* C32: a call that creates no workspace (view_waveform, view_gds,
\* read_openlane_reports on every path, a call rejected for a missing
\* required parameter, a call of an unknown tool) leaves the registry as it
\* was: no record is added, removed or modified.
C32_Step == CreatesNothing(last') => projects' = projects
C32_NonCreatingCallsKeepRegistry == [][C32_Step]_vars

\* Such calls answered while the registry holds a record: a reader that
\* failed, and before it a call that was rejected by the protocol layer.
C32_Witness ==
    /\ projects # << >>
    /\ last.tool \in {"view_waveform", "view_gds", "read_openlane_reports"}
    /\ last.resp.kind = "result"
    /\ ~last.resp.env.success
    /\ last.args["project_id"] \notin DOMAIN projects

\* The call just answered was of a creating tool and reached its
\* this.projects.set.
Registered(call) ==
    /\ call.tool \in CreatingTools
    /\ \E e \in Range(call.log) : e[1] = "registry" /\ e[2] = "set"

\* C33: the registry only grows and no registration is rolled back: every
\* record stays as it is, each invocation of a creating tool that reaches
\* its registration step adds one record, and when that invocation then
\* fails the record stays although the failure envelope carries no
\* project_id.
C33_Step ==
    /\ \A id \in DOMAIN projects : id \in DOMAIN projects' /\ projects'[id] = projects[id]
    /\ (calls' # calls /\ Registered(last')) =>
          /\ Cardinality(DOMAIN projects') = Cardinality(DOMAIN projects) + 1
          /\ (last'.resp.kind = "result" /\ ~last'.resp.env.success) =>
                "project_id" \notin DOMAIN last'.resp.env
C33_RegistryOnlyGrows == [][C33_Step]_vars

=============================================================================
